---- MODULE Spec2Model ----
(***************************************************************************)
(* Model of the thumbnail/preview cache of photo-manager:                  *)
(*   src/infrastructure/image_service.py  (_compute_cache_key, _LRUCache,  *)
(*                                         ImageService)                   *)
(*   src/app/views/image_tasks.py         (_ImageTask, ImageTaskRunner)    *)
(***************************************************************************)
EXTENDS Integers, Sequences, FiniteSets, TLC

VARIABLES
    windll,     \* ctypes.windll exists on this platform (image_service.py:298)
    heif,       \* PIL_AVAILABLE and PIL_HEIF_AVAILABLE (image_service.py:109-110)
    setting,    \* the configured "thumbnail_mem_cache" value
    cap,        \* _LRUCache._cap
    fs,         \* the photo files: path -> file state
    mem,        \* _LRUCache._data, an OrderedDict: sequence of items, LRU first
    disk,       \* the disk-cache directory: key -> stored file
    last,       \* record of the most recent public call
    fsChanged,  \* a photo file changed since the most recent call
    nCalls,     \* number of public calls made
    nWrites,    \* number of photo-file changes made
    ops,        \* LRU harness: the get/put calls made so far
    pc,         \* worker threads: position of each thread in its call
    loc,        \* worker threads: local variables of each thread
    runs,       \* worker threads: number of decode-pipeline executions
    shell,      \* one call of _load_via_shell_thumbnail: position and handles
    pane        \* the preview pane, the tasks it started and their results

vars == <<windll, heif, setting, cap, fs, mem, disk, last, fsChanged,
          nCalls, nWrites, ops, pc, loc, runs, shell, pane>>

----------------------------------------------------------------------------
(* Bounds of the model *)

MaxSteps == 3       \* public calls and photo-file changes per behaviour
MaxOps == 4         \* memory cache alone: get/put calls per behaviour
MaxTasks == 3       \* worker threads: image tasks started per behaviour

(* Program constants *)

DefaultMemCap == 512
PlaceholderSide == 64
PlaceholderGrey == 220
GreyTolerance == 2
ShellSmall == 512
ShellLarge == 1024

----------------------------------------------------------------------------
(* Paths and photo files *)

\* A path is (stem, suffix); Path(path).suffix.lower() is Lower(suffix).
Paths == { <<"a", ".jpg">>, <<"b", ".HEIC">> }

Lower(suffix) ==
    CASE suffix = ".HEIC" -> ".heic"
      [] suffix = ".HEIF" -> ".heif"
      [] suffix = ".JPG"  -> ".jpg"
      [] OTHER            -> suffix

Sides == {-1, 0, 256}

\* The requests made: HEIC and other paths, positive, zero and negative sides
Requests ==
    { <<<<"a", ".jpg">>, 256>>, <<<<"a", ".jpg">>, 0>>,
      <<<<"b", ".HEIC">>, 256>>, <<<<"b", ".HEIC">>, -1>> }

\* st_mtime_ns and st_size of the photo files
Mtimes == {0, 1}
FileSizes == {0, 1}

\* What the bytes of a photo file are: "junk" decodes with no decoder, "photo"
\* with every decoder, "heif" with Pillow-HEIF and the shell provider only;
\* "card" is a 64x64 picture of a light grey surface, which every decoder reads;
\* "strip" and "band" are 600x2 pictures, which every decoder reads: scaled to
\* a side below 300 their height rounds down to 0, and the Qt handler of
\* "strip" scales to that empty size while the handler of "band" ignores it.
Contents == {"junk", "photo", "heif", "card", "strip", "band"}

NativeW(c) ==
    CASE c = "photo" -> 4000 [] c = "heif" -> 3000 [] c = "card" -> 64
      [] c \in {"strip", "band"} -> 600 [] OTHER -> 0
NativeH(c) ==
    CASE c = "photo" -> 3000 [] c = "heif" -> 4000 [] c = "card" -> 64
      [] c \in {"strip", "band"} -> 2 [] OTHER -> 0

Missing == [exists |-> FALSE, mtime |-> 0, size |-> 0, content |-> "junk"]

\* An empty file holds no picture.
FileStates ==
    {Missing} \cup
    { f \in [exists : {TRUE}, mtime : Mtimes, size : FileSizes, content : Contents] :
        f.size = 0 => f.content = "junk" }

----------------------------------------------------------------------------
(* Images: QImage values, and Python's None *)

NoneImg == [w |-> -1, h |-> -1, pix |-> "None", enc |-> "-"]
NullImg == [w |-> 0, h |-> 0, pix |-> "null", enc |-> "-"]

\* QImage(w, h, ...): a QImage without area holds no data and is null.
QImage(w, h, pix, enc) ==
    IF w <= 0 \/ h <= 0 THEN NullImg ELSE [w |-> w, h |-> h, pix |-> pix, enc |-> enc]

IsNone(img) == img.pix = "None"
IsNull(img) == img.pix = "null"
Usable(img) == ~IsNone(img) /\ ~IsNull(img)

\* image_service.py:148-149
Placeholder == QImage(PlaceholderSide, PlaceholderSide, "grey220", "raw")

----------------------------------------------------------------------------
(* _compute_cache_key: sha1 of "path|mtime|size|side" is modelled by the     *)
(* tuple of the four fields the string is built from.                       *)

ComputeCacheKeyNoMtime(path, f, size_key) ==
    IF f.exists THEN <<path, 0, f.size, size_key>>
    ELSE <<path, 0, 0, size_key>>

ComputeCacheKeyFallbackNoSide(path, f, size_key) ==
    IF f.exists THEN <<path, f.mtime, f.size, size_key>>
    ELSE <<path, 0, 0, 0>>

\* os.stat raises OSError for a missing file: the key falls back to (path,0,0,side).
ComputeCacheKey(path, f, size_key) ==
    IF f.exists THEN <<path, f.mtime, f.size, size_key>>
    ELSE <<path, 0, 0, size_key>>

----------------------------------------------------------------------------
(* _LRUCache: _data is a sequence of items [key, image], least recent first *)

\* max(1, int(capacity or 1)) for an integer capacity
LRUCap(capacity) ==
    LET c == IF capacity = 0 THEN 1 ELSE capacity
    IN  IF c < 1 THEN 1 ELSE c

HasKey(data, key) == \E i \in 1..Len(data) : data[i].key = key

IndexOf(data, key) == CHOOSE i \in 1..Len(data) : data[i].key = key

Without(data, i) == SubSeq(data, 1, i - 1) \o SubSeq(data, i + 1, Len(data))

\* a move to the least recent end
MoveToFront(data, key) ==
    LET i == IndexOf(data, key) IN <<data[i]>> \o Without(data, i)

\* OrderedDict.move_to_end(key)
MoveToEnd(data, key) ==
    LET i == IndexOf(data, key) IN Without(data, i) \o <<data[i]>>

\* OrderedDict.__setitem__: an existing key keeps its position
SetItem(data, key, image) ==
    IF HasKey(data, key)
    THEN [data EXCEPT ![IndexOf(data, key)] = [key |-> key, image |-> image]]
    ELSE Append(data, [key |-> key, image |-> image])

\* while len(self._data) > self._cap: self._data.popitem(last=False)
RECURSIVE Evict(_, _)
Evict(data, c) == IF Len(data) > c THEN Evict(Tail(data), c) ELSE data

\* get that returns the image and leaves the order alone
LRUGetNoPromote(data, key) ==
    IF ~HasKey(data, key) THEN [image |-> NoneImg, data |-> data]
    ELSE [image |-> data[IndexOf(data, key)].image, data |-> data]

\* _LRUCache.get: [image, data]
LRUGet(data, key) ==
    IF ~HasKey(data, key) THEN [image |-> NoneImg, data |-> data]
    ELSE [image |-> data[IndexOf(data, key)].image, data |-> MoveToEnd(data, key)]

\* _LRUCache.put
LRUPutEvictNewest(data, c, key, image) ==
    LET d == IF HasKey(data, key)
             THEN SetItem(MoveToEnd(data, key), key, image)
             ELSE SetItem(data, key, image)
    IN  IF Len(d) > c THEN SubSeq(d, 1, c) ELSE d

LRUPut(data, c, key, image) ==
    LET d == IF HasKey(data, key)
             THEN SetItem(MoveToEnd(data, key), key, image)
             ELSE SetItem(data, key, image)
    IN  Evict(d, c)

----------------------------------------------------------------------------
(* Decoders.  Each returns [raised, img, trace]: raised is TRUE when an      *)
(* exception leaves the function, img is the QImage (or None), trace lists   *)
(* the decoders that were entered.                                           *)

Min(a, b) == IF a <= b THEN a ELSE b
Max(a, b) == IF a >= b THEN a ELSE b

Ret(img, trace) == [raised |-> FALSE, img |-> img, trace |-> trace]
Raise(trace) == [raised |-> TRUE, img |-> NoneImg, trace |-> trace]

PillowDecodes(f) == f.exists /\ f.content \in {"photo", "heif", "card", "strip", "band"}
QtDecodes(f) == f.exists /\ f.content \in {"photo", "card", "strip", "band"}
ShellDecodes(f) == f.exists /\ f.content \in {"photo", "heif", "card", "strip", "band"}

\* Double-precision arithmetic of int(h * (nw / max(1, w))),
\* image_service.py:187 and 190, for whole numbers 1 <= a <= b and h >= 1 far
\* below 2^31.  a / b is rounded to a 53-bit significand m / 2^(52+c), where
\* 2^-c <= a/b < 2^-(c-1); the product h * m / 2^(52+c) is rounded once more
\* and int() truncates it.  The truncation differs from the exact quotient
\* only when h*a/b is a whole number k, the division rounded down (remainder
\* rem of a * 2^(52+c) by b below b/2) and the product lies more than half a
\* spacing of doubles below k: it is then k - 1.
RECURSIVE Pow2(_), Pow2Mod(_, _), ScaleExponent(_, _, _), Log2Floor(_, _)
Pow2(n) == IF n <= 0 THEN 1 ELSE 2 * Pow2(n - 1)
Pow2Mod(e, b) == IF e = 0 THEN 1 % b ELSE (2 * Pow2Mod(e - 1, b)) % b
ScaleExponent(a, b, c) == IF a * Pow2(c) >= b THEN c ELSE ScaleExponent(a, b, c + 1)
Log2Floor(k, t) == IF Pow2(t + 1) > k THEN t ELSE Log2Floor(k, t + 1)

TruncatedProduct(h, a, b) ==
    LET exact == (h * a) \div b
    IN  IF a = b \/ (h * a) % b # 0 THEN exact
        ELSE LET c == ScaleExponent(a, b, 0)
                 rem == (a * Pow2Mod(52 + c, b)) % b
                 t == Log2Floor(exact, 0)
                 half == IF exact = Pow2(t) THEN 4 * h * rem ELSE 2 * h * rem
             IN  IF rem = 0 \/ 2 * rem > b THEN exact
                 ELSE IF half > b * Pow2(c + t) THEN exact - 1 ELSE exact

\* reader.setScaledSize target, image_service.py:183-193
PreScale(w, h, requested_side) ==
    IF w >= h
    THEN LET nw == Min(requested_side, w)
         IN  <<nw, TruncatedProduct(h, nw, Max(1, w))>>
    ELSE LET nh == Min(requested_side, h)
         IN  <<TruncatedProduct(w, nh, Max(1, h)), nh>>

\* QImage.scaled(side, side, Qt.KeepAspectRatio, ...): QSize.scale, each edge
\* at least 1
KeepAspectScaled(w, h, side) ==
    LET rw == (side * w) \div h
    IN  IF rw <= side THEN <<Max(rw, 1), Max(side, 1)>>
        ELSE <<Max(side, 1), Max((side * h) \div w, 1)>>

\* Image.thumbnail((side, side)): never enlarges, keeps the aspect ratio
PilThumbnail(w, h, side) ==
    IF side >= w /\ side >= h THEN <<w, h>>
    ELSE IF w >= h THEN <<side, Max((2 * h * side + w) \div (2 * w), 1)>>
         ELSE <<Max((2 * w * side + h) \div (2 * h), 1), side>>

\* The bitmap the shell provider returns for a request of px x px
\* (SIIGBF_RESIZETOFIT | SIIGBF_BIGGERSIZEOK | SIIGBF_SCALEUP)
ShellFit(w, h, px) ==
    IF w >= h THEN <<px, Max((h * px) \div w, 1)>> ELSE <<Max((w * px) \div h, 1), px>>

\* _load_via_pillow, image_service.py:212-230
LoadViaPillow(f, requested_side) ==
    IF ~heif THEN NoneImg
    ELSE IF ~PillowDecodes(f) THEN NoneImg
    ELSE LET w == NativeW(f.content)
             h == NativeH(f.content)
             d == IF requested_side > 0 THEN PilThumbnail(w, h, requested_side)
                  ELSE <<w, h>>
         IN  QImage(d[1], d[2], f.content, "raw")

\* reader.read() of _load_from_source, image_service.py:181-194
QtRead(f, requested_side) ==
    IF ~QtDecodes(f) THEN NullImg
    ELSE LET w == NativeW(f.content)
             h == NativeH(f.content)
             pre == IF requested_side > 0 /\ w > 0 /\ h > 0
                    THEN PreScale(w, h, requested_side) ELSE <<w, h>>
         IN  IF (pre[1] = 0 \/ pre[2] = 0) /\ f.content = "band"
             THEN QImage(w, h, f.content, "raw")
             ELSE QImage(pre[1], pre[2], f.content, "raw")

\* img.scaled(...) of _load_from_source, image_service.py:197-200
PostScale(img, requested_side) ==
    IF requested_side > 0
    THEN LET s == KeepAspectScaled(img.w, img.h, requested_side)
         IN  QImage(s[1], s[2], img.pix, img.enc)
    ELSE img

\* size candidates that always start with the small size
SizeCandidatesSmallFirst(side) == <<ShellSmall, ShellLarge>>

\* size_candidates, image_service.py:342-343
SizeCandidates(side) ==
    LET requested == IF side > 0 THEN side ELSE ShellLarge
    IN  IF requested <= ShellSmall THEN <<ShellSmall, ShellLarge>>
        ELSE <<ShellLarge, ShellSmall>>

\* _load_via_shell_thumbnail, image_service.py:258-467.  ctypes.windll is
\* read inside a try that catches OSError only: where the attribute does not
\* exist, AttributeError leaves the function.
LoadViaShellThumbnail(f, side) ==
    IF ~windll THEN Raise(<<"shell">>)
    ELSE IF ~ShellDecodes(f) THEN Ret(NoneImg, <<"shell">>)
    ELSE LET d == ShellFit(NativeW(f.content), NativeH(f.content), SizeCandidates(side)[1])
         IN  Ret(QImage(d[1], d[2], f.content, "raw"), <<"shell">>)

After(trace, r) == [r EXCEPT !.trace = trace \o r.trace]

\* _load_from_source that falls through to the Qt reader when Pillow fails
LoadFromSourceQtAfterPillow(path, f, requested_side) ==
    LET ext == Lower(path[2])
        qt == QtRead(f, requested_side)
    IN  IF ext \in {".heic", ".heif"} /\ heif /\ Usable(LoadViaPillow(f, requested_side))
        THEN Ret(LoadViaPillow(f, requested_side), <<"pillow">>)
        ELSE IF ext \in {".heic", ".heif"} /\ heif
        THEN IF Usable(qt) THEN Ret(PostScale(qt, requested_side), <<"pillow", "qt">>)
             ELSE After(<<"pillow", "qt">>, LoadViaShellThumbnail(f, requested_side))
        ELSE IF Usable(qt) THEN Ret(PostScale(qt, requested_side), <<"qt">>)
             ELSE After(<<"qt">>, LoadViaShellThumbnail(f, requested_side))

\* _load_from_source that asks the shell provider even when the Qt reader
\* has produced an image
LoadFromSourceShellAlways(path, f, requested_side) ==
    LET ext == Lower(path[2])
    IN  IF ext \in {".heic", ".heif"} /\ heif
        THEN LET img == LoadViaPillow(f, requested_side)
             IN  IF Usable(img) THEN Ret(img, <<"pillow">>)
                 ELSE After(<<"pillow">>, LoadViaShellThumbnail(f, requested_side))
        ELSE LET img == QtRead(f, requested_side)
                 sh == LoadViaShellThumbnail(f, requested_side)
             IN  IF Usable(img) /\ ~sh.raised
                 THEN Ret(PostScale(img, requested_side), <<"qt", "shell">>)
                 ELSE After(<<"qt">>, sh)

\* _load_from_source that returns whatever the Qt reader gave
LoadFromSourceReturnsQtOutput(path, f, requested_side) ==
    LET ext == Lower(path[2])
    IN  IF ext \in {".heic", ".heif"} /\ heif
        THEN LET img == LoadViaPillow(f, requested_side)
             IN  IF Usable(img) THEN Ret(img, <<"pillow">>)
                 ELSE After(<<"pillow">>, LoadViaShellThumbnail(f, requested_side))
        ELSE Ret(QtRead(f, requested_side), <<"qt">>)

\* _load_from_source, image_service.py:164-210
LoadFromSource(path, f, requested_side) ==
    LET ext == Lower(path[2])
    IN  IF ext \in {".heic", ".heif"} /\ heif
        THEN LET img == LoadViaPillow(f, requested_side)
             IN  IF Usable(img) THEN Ret(img, <<"pillow">>)
                 ELSE After(<<"pillow">>, LoadViaShellThumbnail(f, requested_side))
        ELSE LET img == QtRead(f, requested_side)
             IN  IF Usable(img) THEN Ret(PostScale(img, requested_side), <<"qt">>)
                 ELSE After(<<"qt">>, LoadViaShellThumbnail(f, requested_side))

----------------------------------------------------------------------------
(* The disk cache: key -> [img, by].  img is what QImage(str(disk_file))     *)
(* yields for the file (the null image for a file that does not decode), by  *)
(* tells a file this service wrote from one it found in the directory.       *)

NoDisk == [k \in {} |-> NullImg]

Jpeg(img) == [img EXCEPT !.enc = "jpeg"]

Stored(d, key, entry) == [k \in DOMAIN d \cup {key} |-> IF k = key THEN entry ELSE d[k]]
UnlinkedNot(d, key) == d
UnlinkedWithTheRest(d, key) == [k \in {} |-> d[k]]
Unlinked(d, key) == [k \in DOMAIN d \ {key} |-> d[k]]

\* Pictures of one colour, and grey pictures with dark pixels at some places
Flat == [grey217 |-> <<217, 217, 217>>, grey218 |-> <<218, 218, 218>>,
         grey222 |-> <<222, 222, 222>>, grey223 |-> <<223, 223, 223>>,
         red223 |-> <<223, 220, 220>>, green217 |-> <<220, 217, 220>>,
         blue223 |-> <<220, 220, 223>>]

Spots == [spot00 |-> {<<0, 0>>}, spot32 |-> {<<32, 32>>}, spot63 |-> {<<63, 63>>},
          spotsElsewhere |-> {<<1, 1>>, <<31, 31>>, <<62, 62>>, <<63, 0>>, <<0, 63>>}]

\* The colour of a sampled pixel: QColor(img.pixel(x, y))
Pixel(img, x, y) ==
    CASE img.pix = "grey220" -> <<PlaceholderGrey, PlaceholderGrey, PlaceholderGrey>>
      [] img.pix = "photo"   -> <<40, 90, 160>>
      [] img.pix = "heif"    -> <<200, 120, 30>>
      [] img.pix = "card"    -> <<221, 221, 221>>
      [] img.pix \in DOMAIN Flat  -> Flat[img.pix]
      [] img.pix \in DOMAIN Spots ->
            IF <<x, y>> \in Spots[img.pix] THEN <<0, 0, 0>>
            ELSE <<PlaceholderGrey, PlaceholderGrey, PlaceholderGrey>>
      [] OTHER               -> <<0, 0, 0>>

Abs(n) == IF n < 0 THEN -n ELSE n

IsGrey(c) ==
    /\ Abs(c[1] - PlaceholderGrey) <= GreyTolerance
    /\ Abs(c[2] - PlaceholderGrey) <= GreyTolerance
    /\ Abs(c[3] - PlaceholderGrey) <= GreyTolerance

\* a test that samples the two corners only
LooksLikePlaceholderTwoSamples(img) ==
    /\ img.w = PlaceholderSide
    /\ img.h = PlaceholderSide
    /\ IsGrey(Pixel(img, 0, 0))
    /\ IsGrey(Pixel(img, img.w - 1, img.h - 1))

\* _looks_like_placeholder, image_service.py:473-491
LooksLikePlaceholder(img) ==
    /\ img.w = PlaceholderSide
    /\ img.h = PlaceholderSide
    /\ IsGrey(Pixel(img, 0, 0))
    /\ IsGrey(Pixel(img, img.w \div 2, img.h \div 2))
    /\ IsGrey(Pixel(img, img.w - 1, img.h - 1))

----------------------------------------------------------------------------
(* ImageService._get_image, image_service.py:123-162, as one function of the *)
(* state: io.write and io.unlink are the outcomes of the disk-cache write    *)
(* and delete.  The result is [mem, disk, call].                             *)

NoCall ==
    [status |-> "none", p |-> <<"", "">>, s |-> 0, key |-> <<>>, file |-> Missing,
     img |-> NoneImg, via |-> "none", ran |-> FALSE, trace |-> <<>>,
     wrote |-> FALSE, deleted |-> FALSE, rel |-> "first"]

Call(path, side, key, f, img, via, src, wrote, deleted) ==
    [status |-> IF via = "raise" THEN "raised" ELSE "returned",
     p |-> path, s |-> side, key |-> key, file |-> f,
     img |-> img, via |-> via, ran |-> src.ran, trace |-> src.trace,
     wrote |-> wrote, deleted |-> deleted,
     rel |-> CASE last.status = "none" -> "first"
               [] last.status # "none" /\ (last.p # path \/ last.s # side) -> "other"
               [] last.status # "none" /\ last.p = path /\ last.s = side /\ ~fsChanged
                    -> "again"
               [] last.status # "none" /\ last.p = path /\ last.s = side /\ fsChanged
                    /\ last.file.exists /\ f.exists
                    /\ (last.file.mtime # f.mtime \/ last.file.size # f.size)
                    -> "stale"
               [] OTHER -> "changed"]

NotRun == [ran |-> FALSE, trace |-> <<>>]
Ran(r) == [ran |-> TRUE, trace |-> r.trace]

\* image_service.py:144-162: the pipeline, the placeholder, the disk write,
\* the memory put
FromSourceStorePlaceholder(path, side, key, f, m, d, deleted, io) ==
    LET r == LoadFromSource(path, f, side)
        img == IF Usable(r.img) THEN r.img ELSE Placeholder
        d2 == IF io.write THEN Stored(d, key, [img |-> Jpeg(img), by |-> "service"]) ELSE d
    IN  IF r.raised
        THEN [mem |-> m, disk |-> d,
              call |-> Call(path, side, key, f, NoneImg, "raise", Ran(r), FALSE, deleted)]
        ELSE [mem |-> LRUPut(m, cap, key, img), disk |-> d2,
              call |-> Call(path, side, key, f, img,
                            IF Usable(r.img) THEN "source" ELSE "placeholder",
                            Ran(r), io.write, deleted)]

\* The pipeline where a failed disk write is raised to the caller
FromSourceWriteFailureRaises(path, side, key, f, m, d, deleted, io) ==
    LET r == LoadFromSource(path, f, side)
    IN  IF r.raised
        THEN [mem |-> m, disk |-> d,
              call |-> Call(path, side, key, f, NoneImg, "raise", Ran(r), FALSE, deleted)]
        ELSE IF ~Usable(r.img)
        THEN [mem |-> LRUPut(m, cap, key, Placeholder), disk |-> d,
              call |-> Call(path, side, key, f, Placeholder, "placeholder", Ran(r),
                            FALSE, deleted)]
        ELSE IF ~io.write
        THEN [mem |-> m, disk |-> d,
              call |-> Call(path, side, key, f, NoneImg, "raise", Ran(r), FALSE, deleted)]
        ELSE [mem |-> LRUPut(m, cap, key, r.img),
              disk |-> IF io.write
                       THEN Stored(d, key, [img |-> Jpeg(r.img), by |-> "service"])
                       ELSE d,
              call |-> Call(path, side, key, f, r.img, "source", Ran(r), io.write, deleted)]

FromSource(path, side, key, f, m, d, deleted, io) ==
    LET r == LoadFromSource(path, f, side)
    IN  IF r.raised
        THEN [mem |-> m, disk |-> d,
              call |-> Call(path, side, key, f, NoneImg, "raise", Ran(r), FALSE, deleted)]
        ELSE IF ~Usable(r.img)
        THEN [mem |-> LRUPut(m, cap, key, Placeholder), disk |-> d,
              call |-> Call(path, side, key, f, Placeholder, "placeholder", Ran(r),
                            FALSE, deleted)]
        ELSE [mem |-> LRUPut(m, cap, key, r.img),
              disk |-> IF io.write
                       THEN Stored(d, key, [img |-> Jpeg(r.img), by |-> "service"])
                       ELSE d,
              call |-> Call(path, side, key, f, r.img, "source", Ran(r), io.write, deleted)]

\* _get_image that takes every disk-cache file that decodes
GetImageTrustsDisk(path, requested_side, io) ==
    LET f == fs[path]
        key == ComputeCacheKey(path, f, requested_side)
        g == LRUGet(mem, key)
    IN  IF Usable(g.image)
        THEN [mem |-> g.data, disk |-> disk,
              call |-> Call(path, requested_side, key, f, g.image, "mem", NotRun,
                            FALSE, FALSE)]
        ELSE IF key \in DOMAIN disk /\ ~IsNull(disk[key].img)
        THEN [mem |-> LRUPut(g.data, cap, key, disk[key].img), disk |-> disk,
              call |-> Call(path, requested_side, key, f, disk[key].img, "disk",
                            NotRun, FALSE, FALSE)]
        ELSE FromSource(path, requested_side, key, f, g.data, disk, FALSE, io)

GetImageNoMemPut(path, requested_side, io) ==
    LET f == fs[path]
        key == ComputeCacheKey(path, f, requested_side)
        g == LRUGet(mem, key)
    IN  IF Usable(g.image)
        THEN [mem |-> g.data, disk |-> disk,
              call |-> Call(path, requested_side, key, f, g.image, "mem", NotRun,
                            FALSE, FALSE)]
        ELSE IF key \in DOMAIN disk /\ ~IsNull(disk[key].img)
        THEN IF LooksLikePlaceholder(disk[key].img)
             THEN IF io.unlink
                  THEN FromSource(path, requested_side, key, f, g.data,
                                  Unlinked(disk, key), TRUE, io)
                  ELSE FromSource(path, requested_side, key, f, g.data, disk, FALSE, io)
             ELSE [mem |-> g.data, disk |-> disk,
                   call |-> Call(path, requested_side, key, f, disk[key].img, "disk",
                                 NotRun, FALSE, FALSE)]
        ELSE FromSource(path, requested_side, key, f, g.data, disk, FALSE, io)

GetImage(path, requested_side, io) ==
    LET f == fs[path]
        key == ComputeCacheKey(path, f, requested_side)
        g == LRUGet(mem, key)
    IN  IF Usable(g.image)
        THEN [mem |-> g.data, disk |-> disk,
              call |-> Call(path, requested_side, key, f, g.image, "mem", NotRun,
                            FALSE, FALSE)]
        ELSE IF key \in DOMAIN disk /\ ~IsNull(disk[key].img)
        THEN IF LooksLikePlaceholder(disk[key].img)
             THEN IF io.unlink
                  THEN FromSource(path, requested_side, key, f, g.data,
                                  Unlinked(disk, key), TRUE, io)
                  ELSE FromSource(path, requested_side, key, f, g.data, disk, FALSE, io)
             ELSE [mem |-> LRUPut(g.data, cap, key, disk[key].img), disk |-> disk,
                   call |-> Call(path, requested_side, key, f, disk[key].img, "disk",
                                 NotRun, FALSE, FALSE)]
        ELSE FromSource(path, requested_side, key, f, g.data, disk, FALSE, io)

\* get_preview with a path of its own that goes past the two caches
GetPreviewUncached(path, max_side, io) ==
    FromSource(path, max_side, ComputeCacheKey(path, fs[path], max_side), fs[path],
               mem, disk, FALSE, io)

\* The public API, image_service.py:113-120
GetThumbnail(path, size, io) == GetImage(path, size, io)
GetPreview(path, max_side, io) == GetImage(path, max_side, io)

----------------------------------------------------------------------------
(* ImageService.__init__, image_service.py:93-107: the memory-cache capacity *)
(* from the "thumbnail_mem_cache" setting.  A setting is [t, v]: "absent"    *)
(* (no settings, or no such key), "int" (v), "float" (v tenths), "inf" (a     *)
(* float beyond the double range, which json.load reads as infinity) or      *)
(* "str" (not a number).                                                     *)

Absent == [t |-> "absent", v |-> 0]

SettingValues ==
    { Absent, [t |-> "str", v |-> 0], [t |-> "int", v |-> -3], [t |-> "int", v |-> 0],
      [t |-> "int", v |-> 2], [t |-> "float", v |-> 5], [t |-> "inf", v |-> 0] }

\* int(x) of a float: truncation towards zero
TruncTenths(v) == IF v >= 0 THEN v \div 10 ELSE -((-v) \div 10)

\* int(settings.get("thumbnail_mem_cache", 512) or 512) raises OverflowError
\* for an infinite float; the except clause names ValueError and TypeError.
MemCapRaises(s) == s.t = "inf"

\* int(settings.get("thumbnail_mem_cache", 512) or 512) where it does not
\* raise past the except clause: ValueError and TypeError give 512
MemCap(s) ==
    CASE s.t = "int" /\ s.v # 0   -> s.v
      [] s.t = "float" /\ s.v # 0 -> TruncTenths(s.v)
      [] OTHER                    -> DefaultMemCap

\* The constructor: [raised, cap].  Where it raises no service and no cache
\* exist (cap 0).
Construct(s) ==
    IF MemCapRaises(s) THEN [raised |-> TRUE, cap |-> 0]
    ELSE [raised |-> FALSE, cap |-> LRUCap(MemCap(s))]

----------------------------------------------------------------------------
(* The service under sequential calls: every public call is one step.        *)

\* Outcomes of the disk-cache write and delete of one call; the delete can
\* fail only where there is a file to delete.
IoOutcomes(path, side) ==
    { io \in [write : BOOLEAN, unlink : BOOLEAN] :
        ComputeCacheKey(path, fs[path], side) \notin DOMAIN disk => io.unlink }

\* Files the disk-cache directory may hold when the service starts
LegacyEntries ==
    { [img |-> NullImg, by |-> "legacy"],
      [img |-> Jpeg(Placeholder), by |-> "legacy"],
      [img |-> QImage(256, 192, "photo", "jpeg"), by |-> "legacy"] }

LegacyPath == <<"a", ".jpg">>
LegacySide == 256

\* One setting for each capacity a run of MaxSteps calls can tell apart: 1
\* (every second key evicts) and 512 (nothing is evicted)
ServiceSettings == { Absent, [t |-> "int", v |-> -3] }

\* The photo files when the service starts
File(c) == [exists |-> TRUE, mtime |-> 1, size |-> 1, content |-> c]

InitFs ==
    { [p \in Paths |-> Missing],
      [p \in Paths |-> File("junk")],
      [p \in Paths |-> IF p[2] = ".jpg" THEN File("photo") ELSE File("heif")],
      [p \in Paths |-> IF p[2] = ".jpg" THEN File("heif") ELSE File("photo")],
      [p \in Paths |-> File("card")] }

\* What the environment does to a photo file: remove or create it, touch it,
\* rewrite it with another length, rewrite it in place
Changes(f) ==
    IF ~f.exists THEN { File("photo"), [File("junk") EXCEPT !.mtime = 0, !.size = 0] }
    ELSE { Missing,
           [f EXCEPT !.mtime = 1 - f.mtime],
           [f EXCEPT !.size = 1 - f.size,
                     !.content = IF f.size = 1 THEN "junk" ELSE "photo"],
           [f EXCEPT !.content = IF f.size = 0 THEN "junk"
                                 ELSE IF f.content = "photo" THEN "heif" ELSE "photo"] }
         \ {f}

IdleThreads == [t \in {} |-> "idle"]

\* No call of _load_via_shell_thumbnail is being followed
NoShellCall == [pc |-> "none"]

\* No preview pane has been constructed
NoPane == [asked |-> <<"no pane">>]

Init ==
    /\ windll \in BOOLEAN
    /\ heif \in BOOLEAN
    /\ setting \in ServiceSettings
    /\ cap = Construct(setting).cap
    /\ fs \in InitFs
    /\ mem = <<>>
    /\ \/ disk = NoDisk
       \/ \E e \in LegacyEntries :
            disk = Stored(NoDisk, ComputeCacheKey(LegacyPath, fs[LegacyPath], LegacySide), e)
    /\ last = NoCall
    /\ fsChanged = FALSE
    /\ nCalls = 0
    /\ nWrites = 0
    /\ ops = <<>>
    /\ pc = IdleThreads
    /\ loc = IdleThreads
    /\ runs = 0
    /\ shell = NoShellCall
    /\ pane = NoPane

Served(r) ==
    /\ nCalls + nWrites < MaxSteps
    /\ mem' = r.mem
    /\ disk' = r.disk
    /\ last' = r.call
    /\ fsChanged' = FALSE
    /\ nCalls' = nCalls + 1
    /\ UNCHANGED <<windll, heif, setting, cap, fs, nWrites, ops, pc, loc, runs, shell, pane>>

CallGetThumbnail ==
    \E rq \in Requests :
      \E io \in IoOutcomes(rq[1], rq[2]) :
        Served(GetThumbnail(rq[1], rq[2], io))

CallGetPreview ==
    \E rq \in Requests :
      \E io \in IoOutcomes(rq[1], rq[2]) :
        Served(GetPreview(rq[1], rq[2], io))

\* The environment creates, rewrites or removes the photo file that was
\* requested last (the files before the first call are those of Init).
ChangeFile ==
    \E path \in {q \in Paths : last.status # "none" /\ q = last.p} :
      \E f \in Changes(fs[path]) :
        /\ nCalls + nWrites < MaxSteps
        /\ fs' = [fs EXCEPT ![path] = f]
        /\ fsChanged' = TRUE
        /\ nWrites' = nWrites + 1
        /\ UNCHANGED <<windll, heif, setting, cap, mem, disk, last, nCalls,
                       ops, pc, loc, runs, shell, pane>>

Next == CallGetThumbnail \/ CallGetPreview \/ ChangeFile

Spec == Init /\ [][Next]_vars

----------------------------------------------------------------------------
(* The memory cache alone: a service is constructed from a setting and its   *)
(* _LRUCache is driven by get and put calls, one call per step.              *)

LRUKeys ==
    { <<<<"a", ".jpg">>, 0, 0, 256>>, <<<<"a", ".jpg">>, 0, 0, 0>>,
      <<<<"b", ".HEIC">>, 0, 0, 256>> }

LRUImages == { Placeholder, QImage(256, 192, "photo", "raw") }

InitLRU ==
    /\ windll = TRUE
    /\ heif = TRUE
    /\ setting \in SettingValues
    /\ cap = Construct(setting).cap
    /\ fs = [p \in Paths |-> Missing]
    /\ mem = <<>>
    /\ disk = NoDisk
    /\ last = NoCall
    /\ fsChanged = FALSE
    /\ nCalls = 0
    /\ nWrites = 0
    /\ ops = <<>>
    /\ pc = IdleThreads
    /\ loc = IdleThreads
    /\ runs = 0
    /\ shell = NoShellCall
    /\ pane = NoPane

CacheGet ==
    \E key \in LRUKeys :
        LET g == LRUGet(mem, key)
        IN  /\ ~Construct(setting).raised
            /\ Len(ops) < MaxOps
            /\ mem' = g.data
            /\ ops' = Append(ops, [op |-> "get", key |-> key, image |-> g.image])
            /\ UNCHANGED <<windll, heif, setting, cap, fs, disk, last, fsChanged,
                           nCalls, nWrites, pc, loc, runs, shell, pane>>

CachePut ==
    \E key \in LRUKeys, image \in LRUImages :
        /\ ~Construct(setting).raised
        /\ Len(ops) < MaxOps
        /\ mem' = LRUPut(mem, cap, key, image)
        /\ ops' = Append(ops, [op |-> "put", key |-> key, image |-> image])
        /\ UNCHANGED <<windll, heif, setting, cap, fs, disk, last, fsChanged,
                       nCalls, nWrites, pc, loc, runs, shell, pane>>

NextLRU == CacheGet \/ CachePut

SpecLRU == InitLRU /\ [][NextLRU]_vars

----------------------------------------------------------------------------
(* Worker threads: ImageTaskRunner starts _ImageTask objects on the global   *)
(* thread pool (image_tasks.py:44-88); each runs _ImageTask.run, which calls *)
(* the service.  The interpreter may switch threads between any two          *)
(* operations of _get_image, _LRUCache.get and _LRUCache.put, so each        *)
(* operation is one step of its thread; the cache has no lock.               *)

Threads == {1, 2}

ConcRequests == { <<<<"a", ".jpg">>, 256>>, <<<<"b", ".HEIC">>, 256>> }

Idle ==
    [rq |-> <<<<"", "">>, 0>>, key |-> <<>>, img |-> NoneImg, ran |-> FALSE,
     res |-> NoneImg, err |-> "", got |-> NoneImg, n |-> 0]

\* A file being written: QImage(str(disk_file)) of it
PartialFile == [img |-> QImage(1, 1, "partial", "jpeg"), by |-> "service"]

InitConc ==
    /\ windll \in BOOLEAN
    /\ heif = TRUE
    /\ setting \in ServiceSettings
    /\ cap = Construct(setting).cap
    /\ fs \in InitFs
    /\ mem = <<>>
    /\ \/ disk = NoDisk
       \/ disk = Stored(NoDisk, ComputeCacheKey(LegacyPath, fs[LegacyPath], LegacySide),
                        [img |-> Jpeg(Placeholder), by |-> "legacy"])
    /\ last = NoCall
    /\ fsChanged = FALSE
    /\ nCalls = 0
    /\ nWrites = 0
    /\ ops = <<>>
    /\ pc = [t \in Threads |-> "idle"]
    /\ loc = [t \in Threads |-> Idle]
    /\ runs = 0
    /\ shell = NoShellCall
    /\ pane = NoPane

ConcFrame ==
    UNCHANGED <<windll, heif, setting, cap, fs, last, fsChanged, nWrites, ops, shell, pane>>

Goto(t, label) == pc' = [pc EXCEPT ![t] = label]

\* ImageTaskRunner.request_*: the pool starts the task (image_tasks.py:57-88)
StartTask(t) ==
    \E rq \in ConcRequests :
        /\ pc[t] \in {"idle", "done"}
        /\ nCalls < MaxTasks
        /\ nCalls' = nCalls + 1
        /\ loc' = [loc EXCEPT ![t] = [Idle EXCEPT !.rq = rq, !.n = loc[t].n + 1]]
        /\ Goto(t, "key")
        /\ UNCHANGED <<mem, disk, runs>> /\ ConcFrame

\* image_service.py:125
StepKey(t) ==
    /\ pc[t] = "key"
    /\ loc' = [loc EXCEPT ![t].key =
                  ComputeCacheKey(loc[t].rq[1], fs[loc[t].rq[1]], loc[t].rq[2])]
    /\ Goto(t, "get")
    /\ UNCHANGED <<mem, disk, runs, nCalls>> /\ ConcFrame

\* image_service.py:72-74
StepGet(t) ==
    /\ pc[t] = "get"
    /\ IF HasKey(mem, loc[t].key)
       THEN /\ loc' = [loc EXCEPT ![t].img = mem[IndexOf(mem, loc[t].key)].image]
            /\ Goto(t, "get_move")
       ELSE /\ loc' = loc
            /\ Goto(t, "exists")
    /\ UNCHANGED <<mem, disk, runs, nCalls>> /\ ConcFrame

\* image_service.py:76-77 and 127-128: move_to_end raises KeyError for a key
\* that is no longer in the dictionary; _ImageTask.run turns an exception
\* into the result None (image_tasks.py:34-36)
StepGetMove(t) ==
    /\ pc[t] = "get_move"
    /\ IF HasKey(mem, loc[t].key)
       THEN /\ mem' = MoveToEnd(mem, loc[t].key)
            /\ loc' = [loc EXCEPT ![t].got = loc[t].img]
            /\ Goto(t, "done")
       ELSE /\ mem' = mem
            /\ loc' = [loc EXCEPT ![t].err = "KeyError", ![t].got = NoneImg]
            /\ Goto(t, "done")
    /\ UNCHANGED <<disk, runs, nCalls>> /\ ConcFrame

\* image_service.py:130-131
StepExists(t) ==
    /\ pc[t] = "exists"
    /\ Goto(t, IF loc[t].key \in DOMAIN disk THEN "read" ELSE "load")
    /\ UNCHANGED <<mem, disk, loc, runs, nCalls>> /\ ConcFrame

\* What QImage(str(disk_file)) gives: the image of the file; of a file that is
\* being written the part that is there, or the null image when that part
\* does not decode
ReadOutcomes(d, key) ==
    IF key \notin DOMAIN d THEN {NullImg}
    ELSE IF d[key] = PartialFile THEN {PartialFile.img, NullImg}
    ELSE {d[key].img}

\* image_service.py:132-142
StepRead(t) ==
    /\ pc[t] = "read"
    /\ \E img \in ReadOutcomes(disk, loc[t].key) :
           IF IsNull(img) THEN loc' = loc /\ Goto(t, "load")
           ELSE IF LooksLikePlaceholder(img) THEN loc' = loc /\ Goto(t, "unlink")
           ELSE loc' = [loc EXCEPT ![t].img = img] /\ Goto(t, "put")
    /\ UNCHANGED <<mem, disk, runs, nCalls>> /\ ConcFrame

\* image_service.py:136-139
StepUnlink(t) ==
    /\ pc[t] = "unlink"
    /\ disk' = Unlinked(disk, loc[t].key)
    /\ Goto(t, "load")
    /\ UNCHANGED <<mem, loc, runs, nCalls>> /\ ConcFrame

\* image_service.py:145-149
StepLoad(t) ==
    /\ pc[t] = "load"
    /\ runs' = runs + 1
    /\ LET r == LoadFromSource(loc[t].rq[1], fs[loc[t].rq[1]], loc[t].rq[2])
       IN  IF r.raised
           THEN /\ loc' = [loc EXCEPT ![t].ran = TRUE, ![t].err = "AttributeError",
                                      ![t].got = NoneImg]
                /\ Goto(t, "done")
           ELSE IF Usable(r.img)
           THEN /\ loc' = [loc EXCEPT ![t].ran = TRUE, ![t].res = r.img, ![t].img = r.img]
                /\ Goto(t, "save")
           ELSE /\ loc' = [loc EXCEPT ![t].ran = TRUE, ![t].res = r.img,
                                      ![t].img = Placeholder]
                /\ Goto(t, "put")
    /\ UNCHANGED <<mem, disk, nCalls>> /\ ConcFrame

\* image_service.py:152-159: save opens (and truncates) the file ...
StepSaveOpen(t) ==
    /\ pc[t] = "save"
    /\ \/ disk' = Stored(disk, loc[t].key, PartialFile) /\ Goto(t, "saving")
       \/ disk' = disk /\ Goto(t, "put")
    /\ UNCHANGED <<mem, loc, runs, nCalls>> /\ ConcFrame

\* ... and then writes the JPEG
StepSaveWrite(t) ==
    /\ pc[t] = "saving"
    /\ disk' = Stored(disk, loc[t].key, [img |-> Jpeg(loc[t].img), by |-> "service"])
    /\ Goto(t, "put")
    /\ UNCHANGED <<mem, loc, runs, nCalls>> /\ ConcFrame

\* image_service.py:81
StepPutTest(t) ==
    /\ pc[t] = "put"
    /\ Goto(t, IF HasKey(mem, loc[t].key) THEN "put_move" ELSE "put_set")
    /\ UNCHANGED <<mem, disk, loc, runs, nCalls>> /\ ConcFrame

\* image_service.py:82
StepPutMove(t) ==
    /\ pc[t] = "put_move"
    /\ IF HasKey(mem, loc[t].key)
       THEN /\ mem' = MoveToEnd(mem, loc[t].key)
            /\ loc' = loc
            /\ Goto(t, "put_set")
       ELSE /\ mem' = mem
            /\ loc' = [loc EXCEPT ![t].err = "KeyError", ![t].got = NoneImg]
            /\ Goto(t, "done")
    /\ UNCHANGED <<disk, runs, nCalls>> /\ ConcFrame

\* image_service.py:83 and 85
StepPutSet(t) ==
    /\ pc[t] = "put_set"
    /\ mem' = SetItem(mem, loc[t].key, loc[t].img)
    /\ Goto(t, "evict")
    /\ UNCHANGED <<disk, loc, runs, nCalls>> /\ ConcFrame

\* image_service.py:86, and the return of _get_image
StepEvictTest(t) ==
    /\ pc[t] = "evict"
    /\ IF Len(mem) > cap
       THEN loc' = loc /\ Goto(t, "pop")
       ELSE loc' = [loc EXCEPT ![t].got = loc[t].img] /\ Goto(t, "done")
    /\ UNCHANGED <<mem, disk, runs, nCalls>> /\ ConcFrame

\* image_service.py:87: popitem raises KeyError on an empty dictionary
StepPop(t) ==
    /\ pc[t] = "pop"
    /\ IF mem # <<>>
       THEN /\ mem' = Tail(mem)
            /\ loc' = loc
            /\ Goto(t, "evict")
       ELSE /\ mem' = mem
            /\ loc' = [loc EXCEPT ![t].err = "KeyError", ![t].got = NoneImg]
            /\ Goto(t, "done")
    /\ UNCHANGED <<disk, runs, nCalls>> /\ ConcFrame

NextConc ==
    \E t \in Threads :
        \/ StartTask(t) \/ StepKey(t) \/ StepGet(t) \/ StepGetMove(t)
        \/ StepExists(t) \/ StepRead(t) \/ StepUnlink(t) \/ StepLoad(t)
        \/ StepSaveOpen(t) \/ StepSaveWrite(t) \/ StepPutTest(t) \/ StepPutMove(t)
        \/ StepPutSet(t) \/ StepEvictTest(t) \/ StepPop(t)

SpecConc == InitConc /\ [][NextConc]_vars

----------------------------------------------------------------------------
(* Claims about the service under sequential calls (Spec)                    *)

ACall == nCalls' = nCalls + 1

SamePathSide == last.status # "none" /\ last'.p = last.p /\ last'.s = last.s

\* C1: every call of get_thumbnail/get_preview, for every path and side and
\* in every state of the two caches, returns a non-null image with width > 0
\* and height > 0.
C1_ReturnsPositiveImage ==
    last.status # "none" =>
        /\ last.status = "returned"
        /\ Usable(last.img)
        /\ last.img.w > 0
        /\ last.img.h > 0

\* C2: no exception crosses get_thumbnail/get_preview, whatever fails in the
\* stat, the disk cache, a decoder (the shell interop missing on the platform
\* included) or the disk write.
C2_NoExceptionCrosses == last.status # "raised"

\* C3: for every (path, side), two consecutive calls with no photo file
\* changed in between return the identical image, and the second call does
\* not run the decode pipeline.
C3_Idempotent ==
    [][ (ACall /\ SamePathSide /\ ~fsChanged)
        => /\ last.status = "returned"
           /\ last'.status = "returned"
           /\ last'.img = last.img
           /\ ~last'.ran ]_vars

\* What holds of a repeated call when the first call returned
IdempotentAfterReturn ==
    [][ (ACall /\ SamePathSide /\ last.status = "returned" /\ ~fsChanged)
        => (last'.status = "returned" /\ last'.img = last.img /\ ~last'.ran) ]_vars

\* C4: when the size or the mtime of the file differs between two calls with
\* the same (path, side), the second call has another key and is answered by
\* the decode pipeline or by an entry stored under the new key, never by the
\* memory or disk entry of the old key.
C4_Invalidation ==
    [][ (ACall /\ SamePathSide /\ last.file.exists /\ fs[last.p].exists
         /\ (fs[last.p].mtime # last.file.mtime \/ fs[last.p].size # last.file.size))
        => /\ last'.key # last.key
           /\ \/ last'.ran
              \/ last'.via = "mem" /\ HasKey(mem, last'.key)
                 /\ last'.img = mem[IndexOf(mem, last'.key)].image
              \/ last'.via = "disk" /\ last'.key \in DOMAIN disk
                 /\ last'.img = disk[last'.key].img ]_vars

C4_CalledAfterFileChange ==
    last.rel = "stale" /\ last.status = "returned" /\ last.ran

\* C9: no disk-cache file written by the service holds the synthesized
\* placeholder: a request whose pipeline failed writes nothing, and a disk
\* lookup never hands out a placeholder as the stored result.
C9_PlaceholderContainment ==
    /\ \A k \in DOMAIN disk : disk[k].by = "service" => disk[k].img.pix # "grey220"
    /\ last.via = "placeholder" => ~last.wrote
    /\ last.via = "disk" => ~LooksLikePlaceholder(last.img)

C9_PipelineFailed ==
    last.via = "placeholder" /\ last.ran /\ last.key \notin DOMAIN disk

\* C10: when every decode strategy fails (for instance the path does not
\* exist) the request returns the 64x64 image filled with grey (220,220,220),
\* puts it into the memory cache under its key, and stores it nowhere else.
C10_FailureGivesPlaceholder ==
    (last.ran /\ last.via # "source") =>
        /\ last.status = "returned"
        /\ last.img = Placeholder
        /\ last.img.w = 64 /\ last.img.h = 64
        /\ Pixel(last.img, 0, 0) = <<220, 220, 220>>
        /\ HasKey(mem, last.key)
        /\ mem[IndexOf(mem, last.key)].image = Placeholder
        /\ ~last.wrote

----------------------------------------------------------------------------
(* Claims about the memory cache (SpecLRU)                                   *)

OnlyDistinctPuts ==
    /\ \A i \in 1..Len(ops) : ops[i].op = "put"
    /\ \A i, j \in 1..Len(ops) : i # j => ops[i].key # ops[j].key

\* C7: after capacity + 1 distinct keys were put into an empty cache with no
\* get in between, the key put first is absent and the capacity keys put
\* last are all present.
C7_LRUEviction ==
    (OnlyDistinctPuts /\ Len(ops) = cap + 1) =>
        /\ ~HasKey(mem, ops[1].key)
        /\ \A i \in 2..Len(ops) : HasKey(mem, ops[i].key)

C7_OverfilledByOne == OnlyDistinctPuts /\ Len(ops) = cap + 1 /\ cap = 2

\* C8: for every configured value a cache of capacity at least 1 is
\* constructed, the capacity stays the one set at construction, and the
\* cache never holds more entries than that.
C8_CapacityBound ==
    /\ ~Construct(setting).raised
    /\ cap >= 1
    /\ cap = LRUCap(MemCap(setting))
    /\ Len(mem) <= cap

\* What holds of the capacity where the constructor returns
CapacityBoundWhenConstructed ==
    ~Construct(setting).raised =>
        (cap >= 1 /\ cap = LRUCap(MemCap(setting)) /\ Len(mem) <= cap)

----------------------------------------------------------------------------
(* Claims about the worker threads (SpecConc)                                *)

Quiescent == \A t \in Threads : pc[t] \in {"idle", "done"}

\* C5: get and put of the memory cache are atomic with respect to the worker
\* threads: promotion and eviction never raise, and the threads leave the
\* cache as some sequential order of their calls would (once every call has
\* returned normally, the key of the last one is cached).
C5_CacheOpsAtomic ==
    /\ \A t \in Threads : loc[t].err # "KeyError"
    /\ (Quiescent /\ nCalls >= 1 /\ \A t \in Threads : loc[t].err = "") => mem # <<>>

BothFirstTasksDone ==
    /\ nCalls = 2
    /\ \A t \in Threads : pc[t] = "done" /\ loc[t].n = 1
    /\ loc[1].rq = loc[2].rq

\* C6: two callers that request the same (path, side) at the same time on a
\* cold cache cause one run of the decode pipeline, or two runs with the same
\* result, and both receive a non-null image.
C6_ConcurrentSameRequest ==
    BothFirstTasksDone =>
        /\ runs = 1 \/ (runs = 2 /\ loc[1].res = loc[2].res)
        /\ \A t \in Threads : Usable(loc[t].got)

\* What holds of the two callers where ctypes.windll exists
ConcurrentSameRequestOnWindows == windll => C6_ConcurrentSameRequest

----------------------------------------------------------------------------
(* Claims about the disk cache tier (Spec)                                   *)

\* The call being made misses the memory cache and finds a decodable file
\* under its key in the disk cache
MemMiss == ~Usable(LRUGet(mem, last'.key).image)

DiskFileDecodes == last'.key \in DOMAIN disk /\ ~IsNull(disk[last'.key].img)

\* C11: on a memory miss, a disk-cache file of the key that decodes and is not
\* placeholder-like is returned and put into the memory cache; the decode
\* pipeline does not run and the disk cache is left as it was.
C11_DiskHitAuthoritative ==
    [][ (ACall /\ MemMiss /\ DiskFileDecodes
         /\ ~LooksLikePlaceholder(disk[last'.key].img))
        => /\ last'.status = "returned"
           /\ last'.img = disk[last'.key].img
           /\ HasKey(mem', last'.key)
           /\ mem'[IndexOf(mem', last'.key)].image = disk[last'.key].img
           /\ ~last'.ran
           /\ ~last'.wrote /\ ~last'.deleted
           /\ disk' = disk ]_vars

C11_ServedFromDisk ==
    /\ last.via = "disk" /\ last.status = "returned"
    /\ last.key \in DOMAIN disk /\ disk[last.key].by = "service"

DiskFilePlaceholderLike == DiskFileDecodes /\ LooksLikePlaceholder(disk[last'.key].img)

DiskFileUndecodable == last'.key \in DOMAIN disk /\ IsNull(disk[last'.key].img)

\* The placeholder-like file is handled as a miss: the pipeline runs and the
\* image of the file reaches neither the caller nor the memory cache
HealedAsMiss ==
    /\ last'.ran
    /\ last'.img # disk[last'.key].img
    /\ \A i \in 1..Len(mem') : mem'[i].image # disk[last'.key].img

\* C12: a disk-cache file of the key that decodes to a placeholder-like image
\* is deleted, the lookup is a miss and the pipeline runs, and the image of
\* the file is neither returned nor put into the memory cache; a file that
\* does not decode is a miss as well.
C12_DiskSelfHeal ==
    [][ /\ (ACall /\ MemMiss /\ DiskFilePlaceholderLike)
            => (last'.deleted /\ HealedAsMiss)
        /\ (ACall /\ MemMiss /\ DiskFileUndecodable) => last'.ran ]_vars

\* C12 as the code has it: the delete is attempted and its failure is
\* swallowed.  Where the delete succeeded the old file is gone (the key holds
\* no file, or the one this call wrote); where it failed the file is still
\* there; in both cases the lookup is a miss.
C12_DiskSelfHealBestEffort ==
    [][ /\ (ACall /\ MemMiss /\ DiskFilePlaceholderLike)
            => /\ HealedAsMiss
               /\ last'.deleted => (last'.key \notin DOMAIN disk' \/ last'.wrote)
               /\ ~last'.deleted => last'.key \in DOMAIN disk'
               /\ last'.key \in DOMAIN disk' =>
                    (disk'[last'.key] = disk[last'.key] \/ last'.wrote)
        /\ (ACall /\ MemMiss /\ DiskFileUndecodable) => last'.ran ]_vars

C12_PlaceholderFileDeleted ==
    last.deleted /\ last.ran /\ last.status = "returned" /\ last.key \notin DOMAIN disk

C12_DeleteFailed ==
    /\ last.ran /\ ~last.deleted /\ last.key \in DOMAIN disk
    /\ LooksLikePlaceholder(disk[last.key].img)

----------------------------------------------------------------------------
(* Claims about the two tiers together (Spec)                                *)

\* C13: a request whose pipeline and disk write both succeed leaves an entry
\* for its key in the memory cache and in the disk cache, and a later request
\* with the same key that misses the memory cache (restart, eviction) is
\* served from that disk entry without running the pipeline.
C13_PersistedThenServedFromDisk ==
    [][ /\ (ACall /\ last'.via = "source" /\ last'.wrote)
            => (HasKey(mem', last'.key) /\ last'.key \in DOMAIN disk')
        /\ (ACall /\ MemMiss /\ last'.key \in DOMAIN disk
            /\ disk[last'.key].by = "service")
            => (last'.via = "disk" /\ ~last'.ran) ]_vars

\* What holds of the entries the placeholder test does not match
PersistedServedUnlessPlaceholderLike ==
    [][ /\ (ACall /\ last'.via = "source" /\ last'.wrote)
            => (HasKey(mem', last'.key) /\ last'.key \in DOMAIN disk')
        /\ (ACall /\ MemMiss /\ last'.key \in DOMAIN disk
            /\ disk[last'.key].by = "service"
            /\ ~LooksLikePlaceholder(disk[last'.key].img))
            => (last'.via = "disk" /\ ~last'.ran) ]_vars

\* The service under calls of its two public methods alone (no photo file
\* changes between the calls)
NextAPI == CallGetThumbnail \/ CallGetPreview

SpecAPI == Init /\ [][NextAPI]_vars

\* C14: get_thumbnail and get_preview are one operation: from every state and
\* for the same arguments they give the same key, steps, image and caches, and
\* the entry the last call left in the memory cache is a hit for both.
C14_ThumbnailIsPreview ==
    /\ \A rq \in Requests : \A io \in IoOutcomes(rq[1], rq[2]) :
         GetThumbnail(rq[1], rq[2], io) = GetPreview(rq[1], rq[2], io)
    /\ (last.status = "returned" /\ ~fsChanged) =>
         \A io \in IoOutcomes(last.p, last.s) :
            LET c == GetPreview(last.p, last.s, io).call
            IN  c.via = "mem" /\ c.img = last.img

C14_EntryHitAgain ==
    nCalls >= 2 /\ last.rel = "again" /\ last.via = "mem" /\ last.status = "returned"

----------------------------------------------------------------------------
(* Claims about the decode pipeline (Spec)                                   *)

\* (w, h) has the aspect ratio of (sw, sh) within one pixel of rounding on the
\* shorter edge
AspectWithinOne(w, h, sw, sh) ==
    IF sw >= sh THEN Abs(h * sw - w * sh) <= sw ELSE Abs(w * sh - h * sw) <= sh

\* The last call returned a genuine image of the file it was made for
GenuineImage ==
    /\ last.status = "returned"
    /\ last.via \in {"source", "mem", "disk"}
    /\ last.file.exists
    /\ last.img.pix = last.file.content

BoundedBy(img, side, f) ==
    /\ Max(img.w, img.h) <= side
    /\ AspectWithinOne(img.w, img.h, NativeW(f.content), NativeH(f.content))

\* C15: every genuine image returned for a request with a positive bound S,
\* from whichever decode strategy or cache tier, has its longer edge at most
\* S and the aspect ratio of the source within one pixel.
C15_BoundedAndProportional ==
    (GenuineImage /\ last.s > 0) => BoundedBy(last.img, last.s, last.file)

\* What holds of the images the Pillow decoder and the Qt reader produce
BoundedUnlessFromShell ==
    (GenuineImage /\ last.s > 0 /\ last.via = "source"
     /\ last.trace[Len(last.trace)] # "shell")
        => BoundedBy(last.img, last.s, last.file)

----------------------------------------------------------------------------
(* Claims about the cache key (Spec)                                         *)

\* The key is a function of (path, mtime_ns, size, side), and another side
\* gives another key
KeyIsFunctionOfStat ==
    \A p \in Paths : \A s1, s2 \in Sides :
        /\ \A f \in FileStates :
             (fs[p].exists /\ f.exists /\ f.mtime = fs[p].mtime /\ f.size = fs[p].size)
                => ComputeCacheKey(p, f, s1) = ComputeCacheKey(p, fs[p], s1)
        /\ s1 # s2 => ComputeCacheKey(p, fs[p], s1) # ComputeCacheKey(p, fs[p], s2)

\* C16: the key is a deterministic function of (path, mtime_ns, size, side),
\* and every change of the file's content, size or mtime, and every change of
\* the requested side, gives a different key.
C16_KeyTracksEveryChange ==
    [][ /\ KeyIsFunctionOfStat
        /\ \A p \in Paths : \A s \in Sides :
             (fs[p].exists /\ fs'[p].exists /\ fs'[p] # fs[p])
                => ComputeCacheKey(p, fs'[p], s) # ComputeCacheKey(p, fs[p], s) ]_vars

\* What holds of the key: it changes with the size and the mtime
KeyTracksStat ==
    [][ /\ KeyIsFunctionOfStat
        /\ \A p \in Paths : \A s \in Sides :
             (fs[p].exists /\ fs'[p].exists
              /\ (fs'[p].mtime # fs[p].mtime \/ fs'[p].size # fs[p].size))
                => ComputeCacheKey(p, fs'[p], s) # ComputeCacheKey(p, fs[p], s) ]_vars

C18_WriteFailureSwallowed ==
    [][ (ACall /\ last'.ran /\ ~last'.wrote
         /\ ~LoadFromSource(last'.p, fs[last'.p], last'.s).raised
         /\ Usable(LoadFromSource(last'.p, fs[last'.p], last'.s).img))
        => /\ last'.status = "returned"
           /\ last'.img = LoadFromSource(last'.p, fs[last'.p], last'.s).img
           /\ HasKey(mem', last'.key)
           /\ mem'[IndexOf(mem', last'.key)].image = last'.img
           /\ last'.key \in DOMAIN disk' =>
                (last'.key \in DOMAIN disk /\ disk'[last'.key] = disk[last'.key]) ]_vars

C18_DecodedButNotWritten ==
    /\ last.via = "source" /\ ~last.wrote /\ last.status = "returned"
    /\ HasKey(mem, last.key) /\ last.key \notin DOMAIN disk

\* The last call ran the pipeline on the HEIC branch: a .heic/.heif suffix
\* with Pillow and its HEIF plugin available
HeicBranch == Lower(last.p[2]) \in {".heic", ".heif"} /\ heif

\* C19: for a .heic/.heif path with the Pillow HEIF decoder available the
\* pipeline tries Pillow first and, when it fails, goes straight to the shell
\* provider; the Qt reader is never invoked.
C19_HeicPillowThenShell ==
    (last.ran /\ HeicBranch) =>
        /\ \A i \in 1..Len(last.trace) : last.trace[i] # "qt"
        /\ IF Usable(LoadViaPillow(last.file, last.s))
           THEN last.trace = <<"pillow">> /\ last.img = LoadViaPillow(last.file, last.s)
           ELSE last.trace = <<"pillow", "shell">>

C19_PillowFailedShellAnswered ==
    /\ last.ran /\ HeicBranch /\ last.p[2] = ".HEIC"
    /\ last.trace = <<"pillow", "shell">> /\ last.status = "returned"
    /\ last.file.exists /\ ~PillowDecodes(last.file)

\* C20: for every other request the pipeline tries the Qt reader first and
\* invokes the shell provider only when the reader gave no non-null image;
\* in every case the result is that of the first strategy that succeeded and
\* no later strategy is invoked.
C20_QtThenShellFirstSuccessWins ==
    /\ (last.ran /\ ~HeicBranch) =>
          IF Usable(QtRead(last.file, last.s))
          THEN /\ last.trace = <<"qt">>
               /\ last.img = PostScale(QtRead(last.file, last.s), last.s)
          ELSE last.trace = <<"qt", "shell">>
    /\ (last.ran /\ last.status = "returned" /\ Len(last.trace) = 2) =>
          last.img = IF Usable(LoadViaShellThumbnail(last.file, last.s).img)
                     THEN LoadViaShellThumbnail(last.file, last.s).img
                     ELSE Placeholder

C20_QtAnsweredAlone ==
    /\ last.ran /\ ~HeicBranch /\ last.trace = <<"qt">> /\ last.via = "source"
    /\ ShellDecodes(last.file)

\* ---------------------------------------------------------------------------
\* One call of _load_via_shell_thumbnail followed step by step
\* (image_service.py:258-467): the interop scope, the factory pointer, the
\* GetImage attempts and the native handles of the read-back.
\* ---------------------------------------------------------------------------

ShellSides == {-1, 0, 256, 512, 513, 2000}

\* CoInitialize: S_OK, S_FALSE (already initialised on this thread, still to
\* be balanced) or a failure such as RPC_E_CHANGED_MODE (nothing to balance)
CoInitResults == {"S_OK", "S_FALSE", "RPC_E_CHANGED_MODE"}

ShellCall(side) ==
    [pc |-> "windll", side |-> side, i |-> 1,
     entered |-> FALSE, uninits |-> 0, outside |-> FALSE,
     ppsi |-> "null", releases |-> 0,
     hbm |-> FALSE, hdc |-> FALSE,
     bmGot |-> 0, bmFreed |-> 0, dcGot |-> 0, dcFreed |-> 0,
     attempts |-> <<>>, caught |-> FALSE, result |-> "pending"]

InitShell ==
    /\ windll \in BOOLEAN
    /\ heif = FALSE
    /\ setting = Absent
    /\ cap = Construct(setting).cap
    /\ fs = [p \in Paths |-> Missing]
    /\ mem = <<>>
    /\ disk = NoDisk
    /\ last = NoCall
    /\ fsChanged = FALSE
    /\ nCalls = 0
    /\ nWrites = 0
    /\ ops = <<>>
    /\ pc = IdleThreads
    /\ loc = IdleThreads
    /\ runs = 0
    /\ shell \in {ShellCall(side) : side \in ShellSides}
    /\ pane = NoPane

ShellFrame ==
    UNCHANGED <<windll, heif, setting, cap, fs, mem, disk, last, fsChanged,
                nCalls, nWrites, ops, pc, loc, runs, pane>>

\* release_fn(ppsi), image_service.py:451-454 and 458-461
ReleaseFn(s) == [s EXCEPT !.ppsi = "released", !.releases = @ + 1]

\* leaving the inner try for its finally clause with the value to return
LeaveWith(s, result) == [s EXCEPT !.pc = "finally", !.result = result]

\* an OSError raised inside the inner try: its finally runs and the handler
\* at image_service.py:465-467 returns None
Raised(s) == LeaveWith([s EXCEPT !.caught = TRUE], "none")

\* _try_get_image returned None: the for loop takes the next candidate, and
\* after the last one releases the factory and returns None (449-462)
NextCandidate(s) ==
    IF s.i < Len(SizeCandidates(s.side))
    THEN [s EXCEPT !.i = @ + 1, !.pc = "thumbnail-only"]
    ELSE LeaveWith(ReleaseFn(s), "none")

Attempted(s, flags, got) ==
    [s EXCEPT !.attempts =
        Append(@, [px |-> SizeCandidates(s.side)[s.i], flags |-> flags, got |-> got])]

GotBitmap(s) == [s EXCEPT !.hbm = TRUE, !.bmGot = @ + 1, !.pc = "getobject"]

\* the finally clause of the read-back that keeps the bitmap
ReadBackFinallyKeepsBitmap(s) ==
    IF s.hdc THEN [s EXCEPT !.hdc = FALSE, !.dcFreed = @ + 1] ELSE s

\* the finally clause of the read-back, image_service.py:443-447
ReadBackFinally(s) ==
    LET a == IF s.hdc THEN [s EXCEPT !.hdc = FALSE, !.dcFreed = @ + 1] ELSE s
    IN  IF a.hbm THEN [a EXCEPT !.hbm = FALSE, !.bmFreed = @ + 1] ELSE a

\* ctypes.windll.shell32 / ole32 / gdi32, image_service.py:298-300
ShLoadLibraries ==
    /\ shell.pc = "windll"
    /\ shell' = IF windll THEN [shell EXCEPT !.pc = "coinit"]
                ELSE [shell EXCEPT !.pc = "returned", !.result = "AttributeError"]
    /\ ShellFrame

\* ole32.CoInitialize(None); the result is not looked at, image_service.py:302
ShCoInitialize ==
    /\ shell.pc = "coinit"
    /\ \E hr \in CoInitResults :
         shell' = [shell EXCEPT !.pc = "create",
                                !.entered = (hr # "RPC_E_CHANGED_MODE")]
    /\ ShellFrame

\* SHCreateItemFromParsingName, image_service.py:313-318
ShCreateItem ==
    /\ shell.pc = "create"
    /\ \E hr \in {"ok", "failed"} :
         LET s == [shell EXCEPT !.outside = @ \/ ~shell.entered]
         IN  shell' = IF hr = "ok"
                      THEN [s EXCEPT !.ppsi = "held", !.pc = "thumbnail-only"]
                      ELSE LeaveWith(s, "none")
    /\ ShellFrame

\* first GetImage of _try_get_image, image_service.py:346-355
ShGetImageThumbnailOnly ==
    /\ shell.pc = "thumbnail-only"
    /\ \E got \in {"bitmap", "refused", "raise"} :
         LET s == Attempted(shell, "thumbnail-only", got)
         IN  shell' = CASE got = "bitmap" -> GotBitmap(s)
                        [] got = "refused" -> [s EXCEPT !.pc = "relaxed"]
                        [] got = "raise" -> Raised(s)
    /\ ShellFrame

\* second GetImage without THUMBNAILONLY, image_service.py:356-361
ShGetImageRelaxed ==
    /\ shell.pc = "relaxed"
    /\ \E got \in {"bitmap", "refused", "raise"} :
         LET s == Attempted(shell, "relaxed", got)
         IN  shell' = CASE got = "bitmap" -> GotBitmap(s)
                        [] got = "refused" -> NextCandidate(s)
                        [] got = "raise" -> Raised(s)
    /\ ShellFrame

\* GetObjectW and the dimension test, image_service.py:404-410
ShGetObject ==
    /\ shell.pc = "getobject"
    /\ \E dims \in {"positive", "nonpositive"} :
         shell' = IF dims = "positive"
                  THEN [shell EXCEPT !.pc = "createdc"]
                  ELSE NextCandidate([shell EXCEPT !.hbm = FALSE, !.bmFreed = @ + 1])
    /\ ShellFrame

\* gdi32.CreateCompatibleDC(None), which may give NULL, image_service.py:421
ShCreateCompatibleDC ==
    /\ shell.pc = "createdc"
    /\ \E dc \in BOOLEAN :
         shell' = [shell EXCEPT !.pc = "readback", !.hdc = dc,
                                !.dcGot = IF dc THEN @ + 1 ELSE @]
    /\ ShellFrame

\* the try block of the read-back with its finally, and what the for loop
\* does with the value, image_service.py:422-456
ShReadBack ==
    /\ shell.pc = "readback"
    /\ \E out \in IF shell.hdc THEN {"image", "getdibits0", "nullqimage", "raise"}
                  ELSE {"getdibits0", "raise"} :
         LET s == ReadBackFinally(shell)
         IN  shell' = CASE out = "image" -> LeaveWith(ReleaseFn(s), "image")
                        [] out = "raise" -> Raised(s)
                        [] OTHER -> NextCandidate(s)
    /\ ShellFrame

\* finally: ole32.CoUninitialize(), image_service.py:463-464
ShCoUninitialize ==
    /\ shell.pc = "finally"
    /\ shell' = [shell EXCEPT !.pc = "returned", !.uninits = @ + 1]
    /\ ShellFrame

NextShell ==
    \/ ShLoadLibraries
    \/ ShCoInitialize
    \/ ShCreateItem
    \/ ShGetImageThumbnailOnly
    \/ ShGetImageRelaxed
    \/ ShGetObject
    \/ ShCreateCompatibleDC
    \/ ShReadBack
    \/ ShCoUninitialize

SpecShell == InitShell /\ [][NextShell]_vars

ShellReturned == shell.pc = "returned" /\ shell.result # "AttributeError"

\* ---------------------------------------------------------------------------
\* C21: order of the shell GetImage attempts
\* ---------------------------------------------------------------------------

\* (c1, thumbnail-only), (c1, relaxed), (c2, thumbnail-only), (c2, relaxed)
FixedAttempts(side) ==
    LET c == SizeCandidates(side)
    IN  <<[px |-> c[1], flags |-> "thumbnail-only"], [px |-> c[1], flags |-> "relaxed"],
          [px |-> c[2], flags |-> "thumbnail-only"], [px |-> c[2], flags |-> "relaxed"]>>

AttemptAt(s, n) == [px |-> s.attempts[n].px, flags |-> s.attempts[n].flags]

ExpectedCandidates(side) ==
    IF side \in 1..512 THEN <<512, 1024>> ELSE <<1024, 512>>

\* The statement of C21 as written: the attempts made so far are a prefix of
\* the fixed sequence of four, and a call that returned made an attempt that
\* gave a bitmap when it returned an image.
C21_AttemptsPrefixOfFixedSequence ==
    shell.pc # "none" =>
        /\ SizeCandidates(shell.side) = ExpectedCandidates(shell.side)
        /\ Len(shell.attempts) <= 4
        /\ \A n \in 1..Len(shell.attempts) :
               AttemptAt(shell, n) = FixedAttempts(shell.side)[n]
        /\ shell.result = "image" =>
               shell.attempts[Len(shell.attempts)].got = "bitmap"

\* C21: the shell attempts take the candidate sizes in the order (c1, c2),
\* (512, 1024) for a bound in 1..512 and (1024, 512) otherwise; each size
\* starts with the thumbnail-only request, the relaxed request of a size is
\* made only directly after the thumbnail-only request of that size returned
\* no bitmap, and a size whose bitmap could not be converted is left without a
\* relaxed request; nothing is attempted after an image was obtained, and an
\* image is returned only when the last attempt gave a bitmap.
C21_ShellAttemptOrder ==
    [][ shell'.pc # "none" =>
          LET s == shell'
              c == ExpectedCandidates(s.side)
              a == s.attempts
          IN  /\ \A n \in 1..Len(a) :
                    /\ n = 1 => a[n].px = c[1] /\ a[n].flags = "thumbnail-only"
                    /\ a[n].flags = "relaxed" =>
                          /\ n > 1
                          /\ a[n-1] = [px |-> a[n].px, flags |-> "thumbnail-only",
                                       got |-> "refused"]
                    /\ (n > 1 /\ a[n].flags = "thumbnail-only") =>
                          /\ a[n].px = c[2]
                          /\ a[n-1].px = c[1]
                          /\ a[n-1].got # "raise"
                          /\ a[n-1].flags = "thumbnail-only" => a[n-1].got = "bitmap"
              /\ shell.result = "image" => s.attempts = shell.attempts
              /\ s.result = "image" => a # <<>> /\ a[Len(a)].got = "bitmap"
              /\ (s.pc = "returned" /\ \A n \in 1..Len(a) : a[n].got # "bitmap")
                    => s.result # "image" ]_vars

\* the first size gave a bitmap that could not be converted and the second
\* size was then asked for
C21_SecondSizeAfterUnconvertibleBitmap ==
    /\ shell.pc = "returned"
    /\ Len(shell.attempts) >= 2
    /\ shell.attempts[1].got = "bitmap"
    /\ shell.attempts[2].px = SizeCandidates(shell.side)[2]
    /\ shell.side > 512

\* ---------------------------------------------------------------------------
\* C22: native handles of the read-back
\* ---------------------------------------------------------------------------

\* C22: every bitmap handle GetImage returned and every device context
\* created for the read-back is released exactly once before the shell call
\* returns: nothing is released that was not obtained, at most one bitmap and
\* one device context are held at a time, and none is held once the call
\* leaves for its return, whichever way it leaves.
C22_NativeHandlesReleasedOnce ==
    shell.pc # "none" =>
        /\ shell.bmGot = shell.bmFreed + (IF shell.hbm THEN 1 ELSE 0)
        /\ shell.dcGot = shell.dcFreed + (IF shell.hdc THEN 1 ELSE 0)
        /\ shell.pc \in {"finally", "returned"} => ~shell.hbm /\ ~shell.hdc

\* a call that obtained two bitmaps and a device context and ended by an
\* error raised in the read-back
C22_RaisedInReadBack ==
    /\ shell.pc = "returned"
    /\ shell.caught
    /\ shell.bmGot = 2
    /\ shell.dcGot >= 1
    /\ shell.attempts[Len(shell.attempts)].got = "bitmap"

\* ---------------------------------------------------------------------------
\* C23: the IShellItemImageFactory pointer
\* ---------------------------------------------------------------------------

\* C23: a call in which SHCreateItemFromParsingName succeeded has released
\* the factory pointer exactly once when it returns, on every exit path.
C23_FactoryReleasedOnce ==
    (shell.pc = "returned" /\ shell.ppsi # "null") =>
        shell.ppsi = "released" /\ shell.releases = 1

\* the pointer is released once on the paths where no step raised, and never
\* twice
FactoryReleasedUnlessRaised ==
    (shell.pc = "returned" /\ shell.ppsi # "null") =>
        /\ shell.releases <= 1
        /\ ~shell.caught => shell.ppsi = "released" /\ shell.releases = 1

\* ---------------------------------------------------------------------------
\* C24: the interop scope
\* ---------------------------------------------------------------------------

\* C24: a shell call enters the interop scope before any shell call and
\* leaves it exactly once on every exit path, leaves it only if it was
\* successfully entered, and makes no interop call outside the scope.
C24_InteropScopeBalanced ==
    shell.pc # "none" =>
        /\ ~shell.outside
        /\ shell.uninits <= (IF shell.entered THEN 1 ELSE 0)
        /\ (shell.pc = "returned" /\ shell.entered) => shell.uninits = 1

\* a call that got past the library lookup calls CoUninitialize exactly once,
\* on every exit path
ScopeLeftOnceWhenEntered ==
    (shell.pc = "returned" /\ shell.result # "AttributeError") => shell.uninits = 1

\* ---------------------------------------------------------------------------
\* The worker threads with a photo file rewritten by another program while
\* requests are in flight (image_service.py:123-162)
\* ---------------------------------------------------------------------------

MaxRewrites == 1

InitRace ==
    /\ windll = TRUE
    /\ heif = TRUE
    /\ setting \in ServiceSettings
    /\ cap = Construct(setting).cap
    /\ fs \in InitFs
    /\ mem = <<>>
    /\ disk = NoDisk
    /\ last = NoCall
    /\ fsChanged = FALSE
    /\ nCalls = 0
    /\ nWrites = 0
    /\ ops = <<>>
    /\ pc = [t \in Threads |-> "idle"]
    /\ loc = [t \in Threads |-> Idle]
    /\ runs = 0
    /\ shell = NoShellCall
    /\ pane = NoPane

OtherPicture(c) == IF c = "photo" THEN "heif" ELSE "photo"

\* the file written again with another picture: new modification time
Rewritten(f) == [f EXCEPT !.mtime = 1 - f.mtime, !.content = OtherPicture(f.content)]

\* Another program rewrites a photo file; the service takes no part in this
\* step, which may fall between os.stat (line 46) and the decode (line 142)
RewriteFile ==
    \E path \in {p \in Paths : fs[p].exists /\ fs[p].content \in {"photo", "heif"}} :
        /\ nWrites < MaxRewrites
        /\ fs' = [fs EXCEPT ![path] = Rewritten(fs[path])]
        /\ fsChanged' = TRUE
        /\ nWrites' = nWrites + 1
        /\ UNCHANGED <<windll, heif, setting, cap, mem, disk, last, nCalls,
                       ops, pc, loc, runs, shell, pane>>

NextRace == NextConc \/ RewriteFile

SpecRace == InitRace /\ [][NextRace]_vars

\* ---------------------------------------------------------------------------
\* C25: cached content is a function of the key
\* ---------------------------------------------------------------------------

\* the picture of the version of the file that has modification time m
VersionPicture(path, m) ==
    IF fs[path].mtime = m THEN fs[path].content ELSE OtherPicture(fs[path].content)

DecodedFromKeyedVersion(key, img) ==
    (img.pix \in {"photo", "heif"} /\ fs[key[1]].content \in {"photo", "heif"})
        => img.pix = VersionPicture(key[1], key[2])

\* C25: every picture held in the memory cache or in the disk cache under the
\* key of (path, mtime, size, side) was decoded from the version of the file
\* that has that mtime and size, also when the file is rewritten while a
\* request is in flight and when several threads store the same key.
C25_ContentIsFunctionOfKey ==
    /\ \A n \in 1..Len(mem) : DecodedFromKeyedVersion(mem[n].key, mem[n].image)
    /\ \A key \in DOMAIN disk : DecodedFromKeyedVersion(key, disk[key].img)

\* the same without a rewrite between the stat and the decode of a request
ContentIsFunctionOfKeyWhenFileIsStable == nWrites = 0 => C25_ContentIsFunctionOfKey

\* ---------------------------------------------------------------------------
\* C26: the memory cache against a reference strict-LRU map.  The reference
\* is read off the history of calls alone: which keys it holds after n calls,
\* when each was last touched, and the image last put.
\* ---------------------------------------------------------------------------

RECURSIVE RefPresent(_), RefTouch(_, _)

\* the last of the first n calls that touched key: a put, or a get that hit
RefTouch(n, key) ==
    LET S == { i \in 1..n : /\ ops[i].key = key
                            /\ (ops[i].op = "put" \/ key \in RefPresent(i - 1)) }
    IN  IF S = {} THEN 0 ELSE CHOOSE i \in S : \A j \in S : j <= i

\* the keys the reference holds after the first n calls
RefPresent(n) ==
    IF n = 0 THEN {}
    ELSE LET P == RefPresent(n - 1)
             o == ops[n]
         IN  IF o.op = "get" \/ o.key \in P THEN P
             ELSE IF Cardinality(P) < cap THEN P \cup {o.key}
             ELSE (P \ {CHOOSE k \in P : \A q \in P : RefTouch(n - 1, k) <= RefTouch(n - 1, q)})
                  \cup {o.key}

\* the image of the latest put of key among the first n calls
RefImage(n, key) ==
    LET S == { i \in 1..n : ops[i].key = key /\ ops[i].op = "put" }
    IN  IF S = {} THEN NoneImg ELSE ops[CHOOSE i \in S : \A j \in S : j <= i].image

\* C26: after every sequence of get and put calls the memory cache holds
\* exactly the keys of the reference strict-LRU map, ordered from the least
\* to the most recently touched, each with the image of its latest put, and
\* every get returned what the reference returns: the latest image on a hit,
\* nothing on a miss.
C26_RefinesStrictLRU ==
    LET n == Len(ops)
    IN  /\ { mem[i].key : i \in 1..Len(mem) } = RefPresent(n)
        /\ \A i, j \in 1..Len(mem) :
               i < j => RefTouch(n, mem[i].key) < RefTouch(n, mem[j].key)
        /\ \A i \in 1..Len(mem) : mem[i].image = RefImage(n, mem[i].key)
        /\ \A m \in 1..n :
               ops[m].op = "get" =>
                   ops[m].image = IF ops[m].key \in RefPresent(m - 1)
                                  THEN RefImage(m - 1, ops[m].key) ELSE NoneImg

\* a get hit made the oldest key the most recent one, and the put of a new
\* key into the full cache then evicted the other key
C26_HitThenEviction ==
    /\ cap = 2
    /\ Len(ops) = 4
    /\ ops[1].op = "put" /\ ops[2].op = "put" /\ ops[2].key # ops[1].key
    /\ ops[3] = [op |-> "get", key |-> ops[1].key, image |-> ops[1].image]
    /\ ops[4].op = "put" /\ ops[4].key \notin {ops[1].key, ops[2].key}
    /\ ~HasKey(mem, ops[2].key)
    /\ HasKey(mem, ops[1].key)

\* ---------------------------------------------------------------------------
\* C27: frame of a memory hit
\* ---------------------------------------------------------------------------

MemHit == HasKey(mem, last'.key) /\ Usable(mem[IndexOf(mem, last'.key)].image)

\* C27: a request whose key is in the memory cache returns the cached image
\* and changes nothing else: the decode pipeline does not run, no disk-cache
\* file is written or deleted and the disk cache is as before, and the memory
\* cache holds the same entries with the same images, the hit key moved to
\* the most recent position and the others in their order.
C27_MemoryHitFrame ==
    [][ (ACall /\ MemHit) =>
          LET n == IndexOf(mem, last'.key)
          IN  /\ last'.status = "returned"
              /\ last'.via = "mem"
              /\ last'.img = mem[n].image
              /\ ~last'.ran /\ last'.trace = <<>>
              /\ ~last'.wrote /\ ~last'.deleted
              /\ disk' = disk
              /\ Len(mem') = Len(mem)
              /\ mem'[Len(mem)] = mem[n]
              /\ \A i \in 1..Len(mem) :
                    /\ i < n => mem'[i] = mem[i]
                    /\ i > n => mem'[i - 1] = mem[i] ]_vars

\* a hit on the key that was not the most recent one, with a disk cache that
\* holds files
C27_HitPromotedOlderKey ==
    /\ last.via = "mem" /\ last.status = "returned"
    /\ last.rel = "other"
    /\ Len(mem) = 2
    /\ mem[2].key = last.key
    /\ DOMAIN disk # {}

\* ---------------------------------------------------------------------------
\* C28: frame of the disk cache
\* ---------------------------------------------------------------------------

ClassifiedPlaceholder(entry) == ~IsNull(entry.img) /\ LooksLikePlaceholder(entry.img)

\* C28: a request creates, overwrites or deletes no disk-cache file but the
\* one of its own key; a file goes away only in a request for its key that
\* classifies it as placeholder-like; a file not so classified stays, and
\* stays as it is when it decodes; nothing but a request touches the files.
C28_DiskFrame ==
    [][ /\ ~ACall => disk' = disk
        /\ ACall =>
             /\ \A k \in (DOMAIN disk \cup DOMAIN disk') \ {last'.key} :
                    k \in DOMAIN disk /\ k \in DOMAIN disk' /\ disk'[k] = disk[k]
             /\ \A k \in DOMAIN disk \ DOMAIN disk' :
                    k = last'.key /\ last'.deleted /\ ClassifiedPlaceholder(disk[k])
             /\ \A k \in DOMAIN disk :
                    ~ClassifiedPlaceholder(disk[k]) =>
                        /\ k \in DOMAIN disk'
                        /\ ~IsNull(disk[k].img) => disk'[k] = disk[k] ]_vars

\* a request deleted the placeholder-like file of its key and wrote its own
\* file while the file of another key stayed
C28_DeletedBesideOtherFile ==
    /\ last.deleted /\ last.wrote
    /\ \E k \in DOMAIN disk : k # last.key /\ ~ClassifiedPlaceholder(disk[k])

\* ---------------------------------------------------------------------------
\* The decode pipeline over pictures of every shape and bounds of every sign:
\* a fresh service answers up to MaxDecodes requests (image_service.py:112-210)
\* ---------------------------------------------------------------------------

MaxDecodes == 2

DecodeSides == {-1, 0, 1, 256, 600}

InitDecode ==
    /\ windll \in BOOLEAN
    /\ heif \in BOOLEAN
    /\ setting = Absent
    /\ cap = Construct(setting).cap
    /\ fs \in { [p \in Paths |-> File(c)] : c \in Contents }
    /\ mem = <<>>
    /\ disk = NoDisk
    /\ last = NoCall
    /\ fsChanged = FALSE
    /\ nCalls = 0
    /\ nWrites = 0
    /\ ops = <<>>
    /\ pc = IdleThreads
    /\ loc = IdleThreads
    /\ runs = 0
    /\ shell = NoShellCall
    /\ pane = NoPane

\* get_thumbnail(path, size), image_service.py:112-115
DecodeThumbnail ==
    \E path \in Paths, size \in DecodeSides :
      \E io \in IoOutcomes(path, size) :
        /\ nCalls < MaxDecodes
        /\ Served(GetThumbnail(path, size, io))

\* get_preview(path, max_side), image_service.py:117-120
DecodePreview ==
    \E path \in Paths, max_side \in DecodeSides :
      \E io \in IoOutcomes(path, max_side) :
        /\ nCalls < MaxDecodes
        /\ Served(GetPreview(path, max_side, io))

NextDecode == DecodeThumbnail \/ DecodePreview

SpecDecode == InitDecode /\ [][NextDecode]_vars

\* ---------------------------------------------------------------------------
\* C29: a zero or negative bound means native resolution
\* ---------------------------------------------------------------------------

\* the call ran the pipeline and a decoder gave the image it returned
Decoded == last.status = "returned" /\ last.ran /\ last.img.pix = last.file.content

IsNative(img, f) == img.w = NativeW(f.content) /\ img.h = NativeH(f.content)

\* C29: for a zero or negative bound, whichever decode strategy succeeds
\* (Pillow, Qt or the shell) returns the image at its native dimensions.
C29_NonPositiveBoundIsNative ==
    (Decoded /\ last.s <= 0) => IsNative(last.img, last.file)

\* Pillow and Qt return the native size for a zero or negative bound
NativeUnlessFromShell ==
    (Decoded /\ last.s <= 0 /\ last.trace[Len(last.trace)] # "shell")
        => IsNative(last.img, last.file)

\* ---------------------------------------------------------------------------
\* C30: an output without area is a failure
\* ---------------------------------------------------------------------------

HasArea(img) == img.w > 0 /\ img.h > 0

\* the Qt reader was asked for a scaled size without area and scaled to it
QtOutputWithoutArea ==
    /\ last.ran /\ last.trace # <<>> /\ last.trace[1] = "qt"
    /\ last.s > 0
    /\ last.file.content = "strip"
    /\ LET pre == PreScale(NativeW("strip"), NativeH("strip"), last.s)
       IN  pre[1] = 0 \/ pre[2] = 0

\* C30: a strategy output with zero width or zero height counts as a failure:
\* the pipeline goes on to the next strategy, and what the call returns is
\* the next strategy's image or the placeholder; no image without area is
\* returned, written to the disk cache or put into the memory cache.
C30_OutputWithoutAreaIsFailure ==
    /\ last.status = "returned" => HasArea(last.img)
    /\ \A n \in 1..Len(mem) : HasArea(mem[n].image)
    /\ \A key \in DOMAIN disk : HasArea(disk[key].img)
    /\ QtOutputWithoutArea =>
          /\ last.trace = <<"qt", "shell">>
          /\ last.status = "returned" =>
                last.img \in {Placeholder, LoadViaShellThumbnail(last.file, last.s).img}

\* the Qt reader gave an image without area and the shell answered
C30_QtWithoutAreaShellAnswered ==
    /\ QtOutputWithoutArea
    /\ last.status = "returned"
    /\ last.img.pix = "strip"
    /\ last.wrote

\* ---------------------------------------------------------------------------
\* _looks_like_placeholder applied to images of every size and colouring
\* (image_service.py:473-491)
\* ---------------------------------------------------------------------------

HeuristicEdges == {0, 1, 32, 63, 64, 65, 128}

HeuristicPictures ==
    {"grey220", "photo", "card"} \cup DOMAIN Flat \cup DOMAIN Spots

HeuristicImages ==
    { QImage(w, h, pix, "jpeg") : w \in HeuristicEdges, h \in HeuristicEdges,
                                  pix \in HeuristicPictures }

InitHeuristic ==
    /\ windll = TRUE
    /\ heif = TRUE
    /\ setting = Absent
    /\ cap = Construct(setting).cap
    /\ fs = [p \in Paths |-> Missing]
    /\ mem = <<>>
    /\ disk = NoDisk
    /\ last = NoCall
    /\ fsChanged = FALSE
    /\ nCalls = 0
    /\ nWrites = 0
    /\ ops = <<>>
    /\ pc = IdleThreads
    /\ loc = IdleThreads
    /\ runs = 0
    /\ shell = NoShellCall
    /\ pane = NoPane

\* self._looks_like_placeholder(img), image_service.py:135
Classify ==
    \E img \in HeuristicImages :
        /\ ops' = <<[op |-> "classify", image |-> img,
                     placeholder |-> LooksLikePlaceholder(img)]>>
        /\ UNCHANGED <<windll, heif, setting, cap, fs, mem, disk, last, fsChanged,
                       nCalls, nWrites, pc, loc, runs, shell, pane>>

NextHeuristic == Classify

SpecHeuristic == InitHeuristic /\ [][NextHeuristic]_vars

\* ---------------------------------------------------------------------------
\* C31: what the placeholder test classifies
\* ---------------------------------------------------------------------------

Within2Of220(c) == \A ch \in 1..3 : c[ch] \in 218..222

\* C31: an image is classified placeholder-like exactly when it is 64x64 and
\* the pixels at (0,0), (32,32) and (63,63) each have red, green and blue
\* within 2 of 220; an image of any other size is not classified.
C31_PlaceholderHeuristic ==
    \A n \in 1..Len(ops) :
        ops[n].op = "classify" =>
            LET img == ops[n].image
            IN  ops[n].placeholder <=>
                    /\ img.w = 64 /\ img.h = 64
                    /\ \A xy \in {<<0, 0>>, <<32, 32>>, <<63, 63>>} :
                           Within2Of220(Pixel(img, xy[1], xy[2]))

\* a 64x64 grey picture with dark pixels away from the three samples was
\* classified placeholder-like
C31_ClassifiedDespiteSpots ==
    /\ ops # <<>> /\ ops[1].op = "classify"
    /\ ops[1].image.pix = "spotsElsewhere"
    /\ ops[1].image.w = 64 /\ ops[1].image.h = 64
    /\ ops[1].placeholder

\* ---------------------------------------------------------------------------
\* Image objects: _get_image with the identity of the QImage objects it
\* creates, stores and returns (image_service.py:123-162, 70-87).  An image
\* object is an image value with the identity id; callers are the worker
\* threads of the pool and the UI thread.
\* ---------------------------------------------------------------------------

MaxRequests == 3

Callers == {"worker1", "worker2", "ui"}

\* a new QImage object: what QImage(str(disk_file)), a decoder or the
\* placeholder constructor returns
NewObject(img, id) ==
    [w |-> img.w, h |-> img.h, pix |-> img.pix, enc |-> img.enc, id |-> id]

InitObjects ==
    /\ windll = TRUE
    /\ heif = TRUE
    /\ setting \in ServiceSettings
    /\ cap = Construct(setting).cap
    /\ fs = [p \in Paths |-> Missing]
    /\ mem = <<>>
    /\ disk = NoDisk
    /\ last = NoCall
    /\ fsChanged = FALSE
    /\ nCalls = 0
    /\ nWrites = 0
    /\ ops = <<>>
    /\ pc = IdleThreads
    /\ loc = IdleThreads
    /\ runs = 0
    /\ shell = NoShellCall
    /\ pane = NoPane

ObjectsFrame ==
    UNCHANGED <<windll, heif, setting, cap, fs, disk, last, fsChanged, nWrites,
                pc, loc, runs, shell, pane>>

\* _get_image finds the key in the memory cache: 'return img' of the object
\* _LRUCache.get returned, which is item.image (image_service.py:126-128, 77)
RequestHit ==
    \E by \in Callers, key \in LRUKeys :
        LET g == LRUGet(mem, key)
        IN  /\ nCalls < MaxRequests
            /\ Usable(g.image)
            /\ mem' = g.data
            /\ nCalls' = nCalls + 1
            /\ ops' = Append(ops, [op |-> "request", by |-> by, key |-> key,
                                   image |-> g.image])
            /\ ObjectsFrame

\* _get_image misses: img is a new object (read from the disk file, decoded,
\* or the placeholder); 'self._mem_cache.put(key, img)' and 'return img'
\* (image_service.py:130-162)
RequestMiss ==
    \E by \in Callers, key \in LRUKeys, made \in LRUImages :
        LET g == LRUGet(mem, key)
            img == NewObject(made, nCalls + 1)
        IN  /\ nCalls < MaxRequests
            /\ ~Usable(g.image)
            /\ mem' = LRUPut(g.data, cap, key, img)
            /\ nCalls' = nCalls + 1
            /\ ops' = Append(ops, [op |-> "request", by |-> by, key |-> key,
                                   image |-> img])
            /\ ObjectsFrame

NextObjects == RequestHit \/ RequestMiss

SpecObjects == InitObjects /\ [][NextObjects]_vars

\* ---------------------------------------------------------------------------
\* C32: the caller gets a copy
\* ---------------------------------------------------------------------------

HeldByCache(id) == \E i \in 1..Len(mem) : mem[i].image.id = id

\* C32: the image object a request returned is not an object the memory
\* cache holds, and callers on different threads never hold the same object.
C32_CallerGetsCopy ==
    /\ ops # <<>> => ~HeldByCache(ops[Len(ops)].image.id)
    /\ \A m, n \in 1..Len(ops) :
           ops[m].by # ops[n].by => ops[m].image.id # ops[n].image.id

\* the objects are shared only through the cache: two keys never share an
\* object, and requests that returned one object were for one key
ObjectsSharedPerKeyOnly ==
    /\ \A i, j \in 1..Len(mem) : i # j => mem[i].image.id # mem[j].image.id
    /\ \A m, n \in 1..Len(ops) :
           ops[m].image.id = ops[n].image.id => ops[m].key = ops[n].key

\* ---------------------------------------------------------------------------
\* C33: a disk-cache file that is being written
\* ---------------------------------------------------------------------------

FromPartialFile(img) == img.pix = PartialFile.img.pix

\* C33: no request returns, and none puts into the memory cache, an image
\* read from a disk-cache file that another worker thread has opened for
\* writing and not yet finished.
C33_NoPartialFileRead ==
    /\ \A t \in Threads : ~FromPartialFile(loc[t].img) /\ ~FromPartialFile(loc[t].got)
    /\ \A n \in 1..Len(mem) : ~FromPartialFile(mem[n].image)

\* ---------------------------------------------------------------------------
\* A service that keeps the answers it gave: calls, changes of the photo
\* files and restarts of the process over one disk-cache directory
\* (image_service.py:93-162)
\* ---------------------------------------------------------------------------

InitAnswers ==
    /\ windll \in BOOLEAN
    /\ heif \in BOOLEAN
    /\ setting \in ServiceSettings
    /\ cap = Construct(setting).cap
    /\ fs \in { [p \in Paths |-> File("junk")],
                [p \in Paths |-> IF p[2] = ".jpg" THEN File("photo") ELSE File("heif")] }
    /\ mem = <<>>
    /\ \/ disk = NoDisk
       \/ disk = Stored(NoDisk, ComputeCacheKey(LegacyPath, fs[LegacyPath], LegacySide),
                        [img |-> Jpeg(Placeholder), by |-> "legacy"])
    /\ last = NoCall
    /\ fsChanged = FALSE
    /\ nCalls = 0
    /\ nWrites = 0
    /\ ops = <<>>
    /\ pc = IdleThreads
    /\ loc = IdleThreads
    /\ runs = 0
    /\ shell = NoShellCall
    /\ pane = NoPane

\* get_thumbnail / get_preview, the answer noted down
AnsweredCall ==
    \E rq \in Requests :
      \E io \in IoOutcomes(rq[1], rq[2]) :
        LET r == GetImage(rq[1], rq[2], io)
        IN  /\ nCalls + nWrites < MaxSteps
            /\ mem' = r.mem
            /\ disk' = r.disk
            /\ last' = r.call
            /\ fsChanged' = FALSE
            /\ nCalls' = nCalls + 1
            /\ ops' = Append(ops, [op |-> "call", key |-> r.call.key, via |-> r.call.via,
                                   pix |-> r.call.img.pix])
            /\ UNCHANGED <<windll, heif, setting, cap, fs, nWrites, pc, loc, runs, shell, pane>>

\* the process ends and a new one constructs the service over the same
\* directory: ImageService.__init__ makes a new, empty _LRUCache (line 108)
Restart ==
    /\ mem # <<>>
    /\ mem' = <<>>
    /\ UNCHANGED <<windll, heif, setting, cap, fs, disk, last, fsChanged, nCalls,
                   nWrites, ops, pc, loc, runs, shell, pane>>

NextAnswers == AnsweredCall \/ ChangeFile \/ Restart

SpecAnswers == InitAnswers /\ [][NextAnswers]_vars

\* ---------------------------------------------------------------------------
\* C34: a placeholder is not a permanent answer
\* ---------------------------------------------------------------------------

\* the latest answer given for key was the placeholder
LastAnswerWasPlaceholder(key) ==
    \E n \in 1..Len(ops) :
        /\ ops[n].key = key /\ ops[n].pix = Placeholder.pix
        /\ \A m \in (n + 1)..Len(ops) : ops[m].key # key

\* a decoder the pipeline of this platform has for the path reads the file
DecodableHere(path, f) ==
    IF Lower(path[2]) \in {".heic", ".heif"} /\ heif
    THEN PillowDecodes(f) \/ (windll /\ ShellDecodes(f))
    ELSE QtDecodes(f) \/ (windll /\ ShellDecodes(f))

\* C34: when the latest answer for a key was the placeholder and the key is
\* no longer in the memory cache (evicted, or the process restarted), the
\* next request with that key runs the decode pipeline, no disk-cache file
\* answers it, and if the file is decodable by then the request returns the
\* decoded picture and not a placeholder.
C34_PlaceholderNotPermanent ==
    [][ (nCalls' = nCalls + 1 /\ LastAnswerWasPlaceholder(last'.key)
         /\ ~HasKey(mem, last'.key))
        => /\ last'.ran
           /\ last'.via # "disk"
           /\ DecodableHere(last'.p, fs[last'.p]) =>
                 /\ last'.status = "returned"
                 /\ last'.img.pix = fs[last'.p].content ]_vars

\* the placeholder was answered, its key left the memory cache, the file was
\* rewritten in place, and the request with the same key returned the picture
C34_GenuineAfterPlaceholderEvicted ==
    /\ Len(ops) >= 2
    /\ ops[Len(ops)].key = ops[1].key
    /\ ops[1].via = "placeholder" /\ ops[1].pix = Placeholder.pix
    /\ ops[Len(ops)].via = "source"
    /\ last.img.pix = last.file.content
    /\ last.key \in DOMAIN disk

\* ---------------------------------------------------------------------------
\* The pre-scale target alone: reader.setScaledSize(QSize(nw, nh)) of
\* _load_from_source (image_service.py:183-193) applied to a source of
\* w x h pixels and a positive requested_side.
\* ---------------------------------------------------------------------------

SourceEdges == {1, 2, 3, 22, 49, 64, 98, 600}

PreScaleSides == {1, 2, 15, 30, 256, 600, 1024}

InitPreScale ==
    /\ windll = TRUE
    /\ heif = TRUE
    /\ setting = Absent
    /\ cap = Construct(setting).cap
    /\ fs = [p \in Paths |-> Missing]
    /\ mem = <<>>
    /\ disk = NoDisk
    /\ last = NoCall
    /\ fsChanged = FALSE
    /\ nCalls = 0
    /\ nWrites = 0
    /\ ops = <<>>
    /\ pc = IdleThreads
    /\ loc = IdleThreads
    /\ runs = 0
    /\ shell = NoShellCall
    /\ pane = NoPane

\* image_service.py:183-193
SetScaledSize ==
    \E w \in SourceEdges, h \in SourceEdges, side \in PreScaleSides :
        /\ ops' = <<[op |-> "setScaledSize", w |-> w, h |-> h, side |-> side,
                     target |-> PreScale(w, h, side)]>>
        /\ UNCHANGED <<windll, heif, setting, cap, fs, mem, disk, last, fsChanged,
                       nCalls, nWrites, pc, loc, runs, shell, pane>>

NextPreScale == SetScaledSize

SpecPreScale == InitPreScale /\ [][NextPreScale]_vars

\* ---------------------------------------------------------------------------
\* C35, C36: the pre-scale target
\* ---------------------------------------------------------------------------

\* C35: for every source of w x h pixels (w, h >= 1) and bound S >= 1 the
\* longer edge of the pre-scale target is min(S, longer source edge), the
\* shorter edge is the source's shorter edge scaled by the same ratio and
\* rounded down, and neither edge is larger than the source's.
C35_PreScaleTarget ==
    \A n \in 1..Len(ops) :
        ops[n].op = "setScaledSize" =>
            LET w == ops[n].w
                h == ops[n].h
                long == Max(w, h)
                short == Min(w, h)
                tlong == Max(ops[n].target[1], ops[n].target[2])
                tshort == Min(ops[n].target[1], ops[n].target[2])
            IN  /\ tlong = Min(ops[n].side, long)
                /\ tshort = (short * tlong) \div long
                /\ ops[n].target[1] <= w
                /\ ops[n].target[2] <= h

\* the part of C35 the arithmetic keeps: the longer edge is min(S, longer
\* source edge), no edge exceeds the source's, and the shorter edge is the
\* rounded-down quotient or one less
PreScaleLongEdgeAndCeiling ==
    \A n \in 1..Len(ops) :
        ops[n].op = "setScaledSize" =>
            LET w == ops[n].w
                h == ops[n].h
                nw == ops[n].target[1]
                nh == ops[n].target[2]
            IN  /\ Max(nw, nh) = Min(ops[n].side, Max(w, h))
                /\ nw <= w /\ nh <= h
                /\ Min(nw, nh) \in { (Min(w, h) * Max(nw, nh)) \div Max(w, h),
                                     (Min(w, h) * Max(nw, nh)) \div Max(w, h) - 1 }

\* C36: for every w, h >= 1 and S >= 1 both edges of the pre-scale target
\* are at least 1.
C36_TargetEdgesPositive ==
    \A n \in 1..Len(ops) :
        ops[n].op = "setScaledSize" =>
            ops[n].target[1] >= 1 /\ ops[n].target[2] >= 1

\* ---------------------------------------------------------------------------
\* C37: a source smaller than the bound
\* ---------------------------------------------------------------------------

\* the source's longer edge is below the positive bound of the call
SmallerThanBound ==
    /\ last.s > 0
    /\ Max(NativeW(last.file.content), NativeH(last.file.content)) < last.s

\* the strategy whose image the call returned
AnsweringStrategy == last.trace[Len(last.trace)]

\* C37: no decode strategy upscales: for a source whose longer edge is below
\* a positive bound, the image returned by the Qt-reader path, like the
\* Pillow path, has the native dimensions.
C37_SmallSourceStaysNative ==
    (Decoded /\ SmallerThanBound /\ AnsweringStrategy \in {"qt", "pillow"})
        => IsNative(last.img, last.file)

\* the Pillow path returns a source smaller than the bound at native size
PillowKeepsSmallSourceNative ==
    (Decoded /\ SmallerThanBound /\ AnsweringStrategy = "pillow")
        => IsNative(last.img, last.file)

\* the Qt path returned a source smaller than the bound enlarged to the bound
QtEnlargedSmallSource ==
    /\ Decoded /\ SmallerThanBound /\ AnsweringStrategy = "qt"
    /\ Max(last.img.w, last.img.h) = last.s

\* ---------------------------------------------------------------------------
\* The preview pane and its image tasks (preview_pane.py:77-305,
\* image_tasks.py:9-88).  show_single, show_grid and clear run on the UI
\* thread; every task started on the thread pool runs on a worker thread and
\* emits imageLoaded, which is queued to the UI thread and handled there by
\* on_image_loaded.  The receiver (the main window) exists throughout.
\* pane.asked records what the pane was asked to show last.
\* ---------------------------------------------------------------------------

MaxShows == 2       \* show_single, show_grid and clear calls per behaviour

PanePaths == {"a.jpg", "b.jpg", "v.mp4"}

\* is_video(path), media_utils.py:9-19
IsVideo(path) == path \in {"v.mp4"}
NotVideo(path) == ~IsVideo(path)

\* the rows of a selected group, main_window.py:493-513
GridItemLists == { <<>>, <<"a.jpg", "b.jpg">> }

\* thumb_side of _compute_grid_geometry, preview_pane.py:521-541
GridThumbSides == {150}

\* what get_preview / get_thumbnail does in a task: returns an image or raises
ServiceOutcomes == {"image", "raise"}

SingleToken(path) == <<"single", path, 0>>
GridToken(path, thumb_side) == <<"grid", path, thumb_side>>

Label(text, pixmap, visible) == [text |-> text, pixmap |-> pixmap, visible |-> visible]

NoLabels == [t \in {} |-> Label("", "None", FALSE)]

\* PreviewPane.__init__, preview_pane.py:46-60
NewPane(service) ==
    [ service |-> service,
      current_single_token |-> "None",
      single_pm |-> "None",
      single_label |-> Label("(preview)", "None", TRUE),
      single_video_player |-> "None",
      grid_container |-> FALSE,
      grid_items |-> <<>>,
      grid_labels |-> NoLabels,
      pool |-> <<>>,
      signals |-> <<>>,
      asked |-> <<"nothing">>,
      shows |-> 0 ]

\* _ImageTask.__init__ and self._pool.start(task), image_tasks.py:17-26, 61-71
Started(p, token, path, side, is_preview) ==
    IF ~p.service THEN p
    ELSE [p EXCEPT !.pool = Append(@, [token |-> token, path |-> path, side |-> side,
                                       is_preview |-> is_preview, state |-> "queued",
                                       raised |-> FALSE, sent |-> <<>>])]

\* PreviewPane.clear, preview_pane.py:220-265
Cleared(p) ==
    [p EXCEPT !.single_video_player = "None",
              !.grid_container = FALSE,
              !.grid_items = <<>>,
              !.grid_labels = NoLabels,
              !.single_label = Label("", "None", FALSE),
              !.single_pm = "None"]

\* PreviewPane.show_single after self.clear(), preview_pane.py:78-104; plays
\* tells whether the video player could be created
ShownSingle(p, path, plays) ==
    IF IsVideo(path)
    THEN IF plays
         THEN [p EXCEPT !.single_video_player = path, !.single_label.visible = FALSE]
         ELSE [p EXCEPT !.single_label.visible = TRUE,
                        !.single_label.text = "Video file not found or cannot be played"]
    ELSE LET q == [p EXCEPT !.single_label.visible = TRUE,
                            !.single_label.text = "Loading"]
         IN  [Started(q, SingleToken(path), path, 0, TRUE)
                 EXCEPT !.current_single_token = SingleToken(path)]

\* the tile loop of show_grid, preview_pane.py:157-210
RECURSIVE Tiled(_, _, _)
Tiled(p, items, thumb_side) ==
    IF items = <<>> THEN p
    ELSE LET path == Head(items)
             token == GridToken(path, thumb_side)
             q == Started(p, token, path, thumb_side, FALSE)
             lbl == Label("Loading", "None", TRUE)
         IN  Tiled([q EXCEPT !.grid_labels =
                        [t \in DOMAIN @ \cup {token} |-> IF t = token THEN lbl ELSE @[t]]],
                   Tail(items), thumb_side)

\* PreviewPane.show_grid after self.clear(), preview_pane.py:107-218
ShownGrid(p, items, thumb_side) ==
    LET ordered == SelectSeq(items, IsVideo) \o SelectSeq(items, NotVideo)
    IN  Tiled([p EXCEPT !.grid_items = ordered, !.grid_container = TRUE],
              ordered, thumb_side)

\* one more call of the pane's public API
Asked(p, what) == [p EXCEPT !.asked = what, !.shows = @ + 1]

\* a task that emits nothing when the service raised
EmittedUnlessRaised(signals, task, raised, img) ==
    IF raised THEN signals
    ELSE Append(signals, [token |-> task.token, path |-> task.path, image |-> img])

\* self._receiver.imageLoaded.emit(self._token, self._path, img),
\* image_tasks.py:37-41
Emitted(signals, task, raised, img) ==
    Append(signals, [token |-> task.token, path |-> task.path, image |-> img])

\* _apply_single_pixmap_fit, preview_pane.py:543-566
SinglePixmapFit(p) ==
    IF p.grid_container /\ p.grid_items # <<>> THEN p
    ELSE IF p.single_pm = "None" THEN p
    ELSE [p EXCEPT !.single_label.pixmap = p.single_pm]

\* QPixmap.fromImage(image): the null pixmap for a null image
FromImage(image) == IF image = "null" THEN "null" ELSE image

\* PreviewPane.on_image_loaded, preview_pane.py:267-305
OnImageLoaded(p, token, path, image) ==
    IF token[1] = "single"
    THEN IF token # p.current_single_token THEN p
         ELSE IF image = "None" THEN [p EXCEPT !.single_label.text = "(failed)"]
         ELSE IF FromImage(image) = "null"
              THEN [p EXCEPT !.single_label.text = "(failed)"]
         ELSE [SinglePixmapFit([p EXCEPT !.single_pm = FromImage(image)])
                  EXCEPT !.single_label.text = ""]
    ELSE IF token[1] = "grid"
    THEN IF token \notin DOMAIN p.grid_labels THEN p
         ELSE IF image = "None" THEN [p EXCEPT !.grid_labels[token].text = "(failed)"]
         ELSE IF FromImage(image) = "null"
              THEN [p EXCEPT !.grid_labels[token].text = "(failed)"]
         ELSE [p EXCEPT !.grid_labels[token].pixmap = FromImage(image),
                        !.grid_labels[token].text = ""]
    ELSE p

InitPane ==
    /\ windll = TRUE
    /\ heif = TRUE
    /\ setting = Absent
    /\ cap = Construct(setting).cap
    /\ fs = [p \in Paths |-> Missing]
    /\ mem = <<>>
    /\ disk = NoDisk
    /\ last = NoCall
    /\ fsChanged = FALSE
    /\ nCalls = 0
    /\ nWrites = 0
    /\ ops = <<>>
    /\ pc = IdleThreads
    /\ loc = IdleThreads
    /\ runs = 0
    /\ shell = NoShellCall
    /\ pane \in {NewPane(service) : service \in BOOLEAN}

PaneFrame ==
    UNCHANGED <<windll, heif, setting, cap, fs, mem, disk, last, fsChanged,
                nCalls, nWrites, ops, pc, loc, runs, shell>>

\* PreviewPane.show_single(path), preview_pane.py:77-104
ShowSingle ==
    \E path \in PanePaths, plays \in BOOLEAN :
        /\ pane.shows < MaxShows
        /\ NotVideo(path) => plays
        /\ pane' = Asked(ShownSingle(Cleared(pane), path, plays), <<"single", path>>)
        /\ PaneFrame

\* PreviewPane.show_grid(items), preview_pane.py:106-218
ShowGrid ==
    \E items \in GridItemLists, thumb_side \in GridThumbSides :
        /\ pane.shows < MaxShows
        /\ pane' = Asked(ShownGrid(Cleared(pane), items, thumb_side), <<"grid">>)
        /\ PaneFrame

\* PreviewPane.clear(), preview_pane.py:220-265
Clear ==
    /\ pane.shows < MaxShows
    /\ pane' = Asked(Cleared(pane), <<"clear">>)
    /\ PaneFrame

\* _ImageTask.run on a worker thread, image_tasks.py:28-41
RunTask ==
    \E i \in 1..Len(pane.pool), outcome \in ServiceOutcomes :
        /\ pane.pool[i].state = "queued"
        /\ LET task == pane.pool[i]
               raised == outcome = "raise"
               img == IF raised THEN "None" ELSE task.path
               out == Emitted(pane.signals, task, raised, img)
           IN  pane' = [pane EXCEPT
                          !.pool[i].state = "done",
                          !.pool[i].raised = raised,
                          !.pool[i].sent = SubSeq(out, Len(pane.signals) + 1, Len(out)),
                          !.signals = out]
        /\ PaneFrame

\* the queued imageLoaded signal reaches MainWindow._on_image_loaded and
\* PreviewPane.on_image_loaded, main_window.py:637-638
Deliver ==
    /\ pane.signals # <<>>
    /\ LET sig == Head(pane.signals)
       IN  pane' = [OnImageLoaded(pane, sig.token, sig.path, sig.image)
                       EXCEPT !.signals = Tail(pane.signals)]
    /\ PaneFrame

NextPane == ShowSingle \/ ShowGrid \/ Clear \/ RunTask \/ Deliver

SpecPane == InitPane /\ [][NextPane]_vars

\* the pool runs every queued task and the event loop handles every queued
\* signal
SpecPaneLive == SpecPane /\ WF_vars(RunTask) /\ WF_vars(Deliver)

\* ---------------------------------------------------------------------------
\* C38: every task emits its result once
\* ---------------------------------------------------------------------------

\* the step handles the oldest queued imageLoaded signal
Handles == pane.signals # <<>> /\ pane'.signals = Tail(pane.signals)

\* a task has emitted at most once, a finished task exactly once, and what it
\* emitted carries its token and path, with image None when the service raised
EmittedOwnResultOnce ==
    \A i \in 1..Len(pane.pool) :
        LET task == pane.pool[i]
        IN  /\ Len(task.sent) <= 1
            /\ task.state = "done" => Len(task.sent) = 1
            /\ \A n \in 1..Len(task.sent) :
                  /\ task.sent[n].token = task.token
                  /\ task.sent[n].path = task.path
                  /\ task.raised = (task.sent[n].image = "None")

\* every task started so far has run to completion
AllTasksDone == \A i \in 1..Len(pane.pool) : pane.pool[i].state = "done"

\* a result with image None puts "(failed)" on the label that waits for its
\* token: the single label while the pane shows that image, the tile's label
\* while the grid of that tile is shown
FailedShown ==
    (Handles /\ Head(pane.signals).image = "None") =>
        LET sig == Head(pane.signals)
        IN  /\ pane.asked = <<"single", sig.path>> /\ sig.token[1] = "single"
                  => /\ pane'.single_label.text = "(failed)"
                     /\ pane'.single_label.visible
            /\ sig.token \in DOMAIN pane.grid_labels
                  => pane'.grid_labels[sig.token].text = "(failed)"

C39_StaleSingleResultDiscarded ==
    [][ (Handles /\ Head(pane.signals).token[1] = "single"
                 /\ pane.asked # <<"single", Head(pane.signals).path>>)
            => /\ pane'.single_pm = pane.single_pm
               /\ pane'.single_label = pane.single_label
               /\ pane'.single_pm = "None" ]_vars

\* a result for an image other than the one last asked for is discarded
OtherImageResultDiscarded ==
    [][ (Handles /\ Head(pane.signals).token[1] = "single"
                 /\ pane.asked[1] = "single"
                 /\ NotVideo(pane.asked[2])
                 /\ pane.asked # <<"single", Head(pane.signals).path>>)
            => /\ pane'.single_pm = pane.single_pm
               /\ pane'.single_label = pane.single_label ]_vars

\* the pane shows a grid and holds a single pixmap
SinglePixmapUnderGrid ==
    pane.asked = <<"grid">> /\ pane.single_pm # "None"

====
